---- MODULE Spec2Model ----
(***************************************************************************)
(* A model of the turborpc server: service registration by reflection,     *)
(* request dispatch (ServeHTTP -> call -> method.invoke), the error        *)
(* taxonomy and its status mapping, and the metadata versions.             *)
(*                                                                         *)
(* Strings that the code inspects byte by byte (names, type identities)    *)
(* are sequences of code points.  A SHA-1 digest is modelled as an         *)
(* injective function of the bytes written to the hash.                    *)
(***************************************************************************)
EXTENDS Integers, Sequences, FiniteSets, TLC

(***************************************************************************)
(* Bounds                                                                  *)
(***************************************************************************)
\* largest number of services the registry holds in the explored runs
MaxServices == 2
\* largest number of requests sent to the counter service
MaxCalls == 3

(***************************************************************************)
(* Strings                                                                 *)
(***************************************************************************)
sEmpty == <<>>
\* "A", "B": ordinary service / type names
sA == <<65>>
sB == <<66>>
\* "M", "N", "Mint", "W", "w": method names
sM == <<77>>
sN == <<78>>
sMint == <<77, 105, 110, 116>>
sWcap == <<87>>
sW == <<119>>
\* "Z": a method without results
sZ == <<90>>
\* "Counter", "Add": the counter service of the package example
sCounter == <<67, 111, 117, 110, 116, 101, 114>>
sAdd == <<65, 100, 100>>
\* defaultRPCClassName = "RPC"
defaultRPCClassName == <<82, 80, 67>>

\* Go's string order (<): bytewise lexicographic
RECURSIVE StrLess(_, _)
StrLess(a, b) ==
    IF b = <<>> THEN FALSE
    ELSE IF a = <<>> THEN TRUE
    ELSE IF Head(a) # Head(b) THEN Head(a) < Head(b)
    ELSE StrLess(Tail(a), Tail(b))

(***************************************************************************)
(* reflect.Type: type identities and the method sets of receiver types     *)
(***************************************************************************)
NilType == "nil"
typeOfError == "error"
typeOfContext == "context.Context"

\* reflect.Type.String() of the business types used by the methods
TypeString(t) ==
    CASE t = "int" -> <<105, 110, 116>>
      [] t = "int64" -> <<105, 110, 116, 54, 52>>
      [] t = "string" -> <<115, 116, 114, 105, 110, 103>>
      [] t = "*string" -> <<42, 115, 116, 114, 105, 110, 103>>
      [] t = "func()" -> <<102, 117, 110, 99, 40, 41>>
      [] t = "any" -> <<105, 110, 116, 101, 114, 102, 97, 99, 101, 32, 123, 125>>
      [] OTHER -> <<>>

\* reflect.Type.Kind() == reflect.Pointer, and Elem()
IsPointerType(t) == t = "*string"
ElemType(t) == IF t = "*string" THEN "string" ELSE t

\* a method of a receiver type: In includes the receiver, as reflect reports it
Meth(name, exported, in, out) ==
    [Name |-> name, Exported |-> exported, In |-> in, Out |-> out]

rcv == "rcvr"
ctx == typeOfContext

\* func (t T) M(ctx) error
mM == Meth(sM, TRUE, <<rcv, ctx>>, <<typeOfError>>)
\* func (t T) Mint(ctx, *string) error
mMint == Meth(sMint, TRUE, <<rcv, ctx, "*string">>, <<typeOfError>>)
\* func (t T) N(ctx, int) (int, error)
mN == Meth(sN, TRUE, <<rcv, ctx, "int">>, <<"int", typeOfError>>)
\* func (t T) M(ctx, string) (string, error)
mMstr == Meth(sM, TRUE, <<rcv, ctx, "string">>, <<"string", typeOfError>>)
\* func (t T) N(ctx) (func(), error)
mNfunc == Meth(sN, TRUE, <<rcv, ctx>>, <<"func()", typeOfError>>)
\* func (t T) W(ctx, a int, b int) error        -- too many parameters
mWwrong == Meth(sWcap, TRUE, <<rcv, ctx, "int", "int">>, <<typeOfError>>)
\* func (t T) M(int) error                       -- first parameter not a context
mMnoctx == Meth(sM, TRUE, <<rcv, "int">>, <<typeOfError>>)
\* func (t T) N(ctx) int                         -- single result not an error
mNnoerr == Meth(sN, TRUE, <<rcv, ctx>>, <<"int">>)
\* func (t T) w(ctx) error                       -- unexported
mW == Meth(sW, FALSE, <<rcv, ctx>>, <<typeOfError>>)

\* func (t T) Z(ctx)                             -- no result at all
mZ == Meth(sZ, TRUE, <<rcv, ctx>>, <<>>)

\* a receiver type: its name, whether the registered value is a pointer to it,
\* and its declared methods in name order
\* (a pointer type has no name of its own; Elem() is the named type)
GoType(name, ptr, ms) ==
    [Name |-> IF ptr THEN <<>> ELSE name,
     Pointer |-> ptr,
     ElemName |-> IF ptr THEN name ELSE <<>>,
     Decls |-> ms,
     Nil |-> FALSE]

\* reflect.TypeOf(nil): the nil reflect.Type, every method call on it panics
NilReflectType ==
    [Name |-> <<>>, Pointer |-> FALSE, ElemName |-> <<>>, Decls |-> <<>>, Nil |-> TRUE]

\* the receiver types that objects handed to Register come from
tA == GoType(sA, TRUE, <<mM, mMint, mN>>)
tB == GoType(sB, FALSE, <<mMstr, mNfunc, mWwrong, mZ, mW>>)
tOnlyWrong == GoType(sB, TRUE, <<mMnoctx, mNnoerr, mWwrong>>)
tRPC == GoType(defaultRPCClassName, TRUE, <<>>)
tNoMethods == GoType(sA, FALSE, <<>>)
tUnexported == GoType(sB, FALSE, <<mW>>)

\* type Counter atomic.Int64, registered as &Counter{}:
\* func (c *Counter) Add(ctx, delta int64) (int64, error)
mAdd == Meth(sAdd, TRUE, <<rcv, ctx, "int64">>, <<"int64", typeOfError>>)
tCounter == GoType(sCounter, TRUE, <<mAdd>>)

Receivers == {tA, tB, tOnlyWrong, tRPC, tNoMethods, tUnexported}

\* the names RegisterName is called with
ServiceNames == {sA, sB, defaultRPCClassName, sEmpty}
\* the service identifiers requests carry (empty: the parameter is missing)
RequestServices == {sA, sB, sEmpty}

\* reflect.Type.Method(i) ranges over the exported methods only
ExportedMethods(typ) == SelectSeq(typ.Decls, LAMBDA m : m.Exported)
NumMethod(typ) == Len(ExportedMethods(typ))
NumIn(m) == Len(m.In)
NumOut(m) == Len(m.Out)

(***************************************************************************)
(* Errors: a message (a sequence of parts) and the set of package          *)
(* sentinels errors.Is finds in the Unwrap chain                           *)
(***************************************************************************)
Lit(text) == [s |-> text, n |-> <<>>]
\* a name or other run-time string spliced into a message (%s, %q)
Str(name) == [s |-> "%", n |-> name]

NilErr == [nil |-> TRUE, msg |-> <<>>, chain |-> {}]
Sentinel(id, text) == [nil |-> FALSE, msg |-> <<Lit(text)>>, chain |-> {id}]
\* errors.New in the business code: no sentinel of this package in its chain
ErrorsNew(text) == [nil |-> FALSE, msg |-> <<Lit(text)>>, chain |-> {}]

ErrReservedServiceName == Sentinel("ErrReservedServiceName", "this service name is reserved")
ErrInvalidService == Sentinel("ErrInvalidService", "service must have one or more exported methods")
ErrServiceRegistered == Sentinel("ErrServiceRegistered", "service name already registered")
ErrMethodErrored == Sentinel("ErrMethodErrored", "method errored")
errServiceNotFound == Sentinel("errServiceNotFound", "could not find service")
errMethodNotFound == Sentinel("errMethodNotFound", "could not find method")
errNoService == Sentinel("errNoService", "no service specified")
errNoMethod == Sentinel("errNoMethod", "no method specified")
errNoInput == Sentinel("errNoInput", "no input")
errDecodingInput == Sentinel("errDecodingInput", "decoding input")
errEncodingOutput == Sentinel("errEncodingOutput", "encoding output")

\* mutant: the error compared with == instead of errors.Is
ErrorsIsByEquality(err, target) == err = target

\* errors.Is(err, target) for a sentinel target
ErrorsIs(err, target) == ~err.nil /\ target.chain \subseteq err.chain

\* fmt.Errorf("%s: %w", name, e)
ErrorfNameColonW(name, e) ==
    [nil |-> FALSE, msg |-> <<Str(name), Lit(": ")>> \o e.msg, chain |-> e.chain]
\* fmt.Errorf("%w %q", e, name)
ErrorfWQuoted(e, name) ==
    [nil |-> FALSE, msg |-> e.msg \o <<Lit(" "), Str(name)>>, chain |-> e.chain]
\* fmt.Errorf("%w: %w", e1, e2)
ErrorfWColonW(e1, e2) ==
    [nil |-> FALSE, msg |-> e1.msg \o <<Lit(": ")>> \o e2.msg, chain |-> e1.chain \cup e2.chain]

(***************************************************************************)
(* SHA-1 over the bytes written, rendered with %x: injective in the model  *)
(***************************************************************************)
Bytes(s) == [i \in 1..Len(s) |-> [b |-> s[i], d |-> <<>>]]
\* the 40 hex characters of the digest of stream, as one token
Sha1Hex(stream) == <<[b |-> 256, d |-> stream]>>

(***************************************************************************)
(* method descriptors (newMethod) and eligibility (isSuitableMethod)       *)
(***************************************************************************)
\* mutant: one parameter more than the method forms allow
isSuitableMethodWideInputs(m) ==
    LET correctInputsAndOutputs ==
            NumIn(m) > 1 /\ NumIn(m) < 5 /\ NumOut(m) > 0 /\ NumOut(m) < 3
    IN  ~(   ~m.Exported
          \/ ~correctInputsAndOutputs
          \/ m.In[2] # typeOfContext
          \/ (NumOut(m) = 1 /\ m.Out[1] # typeOfError)
          \/ (NumOut(m) = 2 /\ m.Out[2] # typeOfError))

isSuitableMethod(m) ==
    LET correctInputsAndOutputs ==
            NumIn(m) > 1 /\ NumIn(m) < 4 /\ NumOut(m) > 0 /\ NumOut(m) < 3
    IN  ~(   ~m.Exported
          \/ ~correctInputsAndOutputs
          \/ m.In[2] # typeOfContext
          \/ (NumOut(m) = 1 /\ m.Out[1] # typeOfError)
          \/ (NumOut(m) = 2 /\ m.Out[2] # typeOfError))

\* mutant: the input type read one parameter too early
newMethodInputOffByOne(m) ==
    [name |-> m.Name,
     input |-> IF NumIn(m) >= 2 THEN m.In[2] ELSE NilType,
     output |-> IF NumOut(m) = 2 THEN m.Out[1] ELSE NilType]

newMethod(m) ==
    [name |-> m.Name,
     input |-> IF NumIn(m) = 3 THEN m.In[3] ELSE NilType,
     output |-> IF NumOut(m) = 2 THEN m.Out[1] ELSE NilType]

\* method.metadata()
methodMetadata(m) == [Name |-> m.name, Input |-> m.input, Output |-> m.output]

calculateMethodVersion(md) ==
    Sha1Hex(Bytes(md.Name)
            \o (IF md.Input # NilType THEN Bytes(TypeString(md.Input)) ELSE <<>>)
            \o (IF md.Output # NilType THEN Bytes(TypeString(md.Output)) ELSE <<>>))

\* sort.Slice(xs, func(i, j) bool { return xs[i].Name < xs[j].Name }) of the
\* records collected from a map whose keys are the names
RECURSIVE SortByName(_)
SortByName(S) ==
    IF S = {} THEN <<>>
    ELSE LET least == CHOOSE x \in S : \A y \in S : ~StrLess(y.Name, x.Name)
         IN  <<least>> \o SortByName(S \ {least})

\* service.metadata(): s.methods is a function from method name to descriptor
serviceMetadata(s) ==
    [Name |-> s.name,
     Methods |-> SortByName({methodMetadata(s.methods[k]) : k \in DOMAIN s.methods}),
     Version |-> s.version]

RECURSIVE WriteMethodVersions(_)
WriteMethodVersions(ms) ==
    IF ms = <<>> THEN <<>>
    ELSE calculateMethodVersion(Head(ms)) \o WriteMethodVersions(Tail(ms))

calculateServiceVersion(md) ==
    Sha1Hex(Bytes(md.Name) \o WriteMethodVersions(md.Methods))

RECURSIVE WriteServiceVersions(_)
WriteServiceVersions(ss) ==
    IF ss = <<>> THEN <<>>
    ELSE calculateServiceVersion(Head(ss)) \o WriteServiceVersions(Tail(ss))

calculateServerVersion(md) == Sha1Hex(WriteServiceVersions(md.Services))

(***************************************************************************)
(* newService: discovery loop over typ.Method(i)                           *)
(***************************************************************************)
\* the eligible methods in index order
SuitableMethods(typ) == SelectSeq(ExportedMethods(typ), isSuitableMethod)

\* the calls logger(s.name, m.Name) made by the loop, in order
LoggerCalls(name, typ, logger) ==
    IF logger
    THEN [i \in 1..Len(SuitableMethods(typ)) |->
              [service |-> name, method |-> SuitableMethods(typ)[i].Name]]
    ELSE <<>>

newService(name, typ, value) ==
    LET ms == SuitableMethods(typ)
        methods == [k \in {ms[i].Name : i \in 1..Len(ms)} |->
                       newMethod(CHOOSE m \in {ms[i] : i \in 1..Len(ms)} : m.Name = k)]
        s0 == [name |-> name, version |-> <<>>, typ |-> typ, value |-> value,
               methods |-> methods]
    IN  [s0 EXCEPT !.version = calculateServiceVersion(serviceMetadata(s0))]

findServiceName(typ) == IF typ.Pointer THEN typ.ElemName ELSE typ.Name

validServiceType(typ) == NumMethod(typ) > 0

(***************************************************************************)
(* encoding/json, as far as the dispatch depends on it                     *)
(***************************************************************************)
\* request bodies
Bodies == {"", "malformed input", "null", "1", "\"boom\""}

\* Go values: ref is TRUE for a pointer to a value of type t
Val(t, i, str) == [ref |-> FALSE, t |-> t, i |-> i, s |-> str]
NoValue == Val(NilType, 0, "")
AddrOf(v) == [v EXCEPT !.ref = TRUE]
Deref(v) == [v EXCEPT !.ref = FALSE]

SyntaxError == ErrorsNew("invalid character 'm' looking for beginning of value")
UnmarshalTypeError == ErrorsNew("json: cannot unmarshal into Go value")
UnsupportedTypeError == ErrorsNew("json: unsupported type: func()")

\* json.Unmarshal(input, p) where p = reflect.New(t): the error and the value
\* p points to afterwards; into an interface (any) a number is stored as a
\* float64, a string as a string and null as the nil interface
Unmarshal(input, t) ==
    CASE input = "malformed input" -> [err |-> SyntaxError, val |-> Val(t, 0, "")]
      [] input = "null" -> [err |-> NilErr, val |-> Val(t, 0, "")]
      [] input = "1" ->
            IF t \in {"int", "int64"} THEN [err |-> NilErr, val |-> Val(t, 1, "")]
            ELSE IF t = "any" THEN [err |-> NilErr, val |-> Val("float64", 1, "")]
            ELSE [err |-> UnmarshalTypeError, val |-> Val(t, 0, "")]
      [] input = "-1" ->
            IF t \in {"int", "int64"} THEN [err |-> NilErr, val |-> Val(t, -1, "")]
            ELSE IF t = "any" THEN [err |-> NilErr, val |-> Val("float64", -1, "")]
            ELSE [err |-> UnmarshalTypeError, val |-> Val(t, 0, "")]
      [] input = "\"\"" ->
            IF t \in {"string", "any"} THEN [err |-> NilErr, val |-> Val("string", 0, "")]
            ELSE [err |-> UnmarshalTypeError, val |-> Val(t, 0, "")]
      [] input = "\"boom\"" ->
            IF t \in {"string", "any"} THEN [err |-> NilErr, val |-> Val("string", 0, "boom")]
            ELSE [err |-> UnmarshalTypeError, val |-> Val(t, 0, "")]
      [] OTHER -> [err |-> SyntaxError, val |-> Val(t, 0, "")]

\* json.Marshal(v)
Marshal(v) ==
    CASE v.t = "func()" -> [err |-> UnsupportedTypeError, buf |-> ""]
      [] v.t \in {"int", "int64", "float64"} -> [err |-> NilErr, buf |-> ToString(v.i)]
      [] v.t = "string" -> [err |-> NilErr, buf |-> IF v.s = "boom" THEN "\"boom\"" ELSE "\"\""]
      [] OTHER -> [err |-> NilErr, buf |-> "null"]

nullJSON == "null"

(***************************************************************************)
(* method.decodeInput, method.invoke, Server.call                          *)
(***************************************************************************)
\* mutant: the empty-input check left out
decodeInputNoEmptyCheck(m, input) ==
    LET argIsValue == ~IsPointerType(m.input)
        u == IF IsPointerType(m.input)
             THEN Unmarshal(input, ElemType(m.input))
             ELSE Unmarshal(input, m.input)
        argv == AddrOf(u.val)
    IN  IF ~u.err.nil THEN [argv |-> argv, err |-> u.err]
        ELSE [argv |-> IF argIsValue THEN Deref(argv) ELSE argv, err |-> NilErr]

\* mutant: the value-typed argument left as the pointer reflect.New returned
decodeInputKeepsPointer(m, input) ==
    IF input = "" THEN [argv |-> NoValue, err |-> errNoInput]
    ELSE LET u == IF IsPointerType(m.input)
                  THEN Unmarshal(input, ElemType(m.input))
                  ELSE Unmarshal(input, m.input)
             argv == AddrOf(u.val)
         IN  IF ~u.err.nil THEN [argv |-> argv, err |-> u.err]
             ELSE [argv |-> argv, err |-> NilErr]

decodeInput(m, input) ==
    IF input = "" THEN [argv |-> NoValue, err |-> errNoInput]
    ELSE LET argIsValue == ~IsPointerType(m.input)
             u == IF IsPointerType(m.input)
                  THEN Unmarshal(input, ElemType(m.input))
                  ELSE Unmarshal(input, m.input)
             argv == AddrOf(u.val)
         IN  IF ~u.err.nil THEN [argv |-> argv, err |-> u.err]
             ELSE [argv |-> IF argIsValue THEN Deref(argv) ELSE argv, err |-> NilErr]

\* what the business method returns when called: outputs[0..] of m.fn.Call
\* resp is only present for a method with two results
BusinessErrors == {NilErr, ErrorsNew("boom")}
BusinessValues(t) ==
    CASE t = "int" -> {Val("int", 3, "")}
      [] t = "string" -> {Val("string", 0, "boom")}
      [] t = "func()" -> {Val("func()", 0, "")}
      [] OTHER -> {NoValue}
BusinessResults(m) == [resp : BusinessValues(m.output), errv : BusinessErrors]

\* mutant: the output encoded and returned before the error value is looked at
invokeEncodesBeforeError(m, bs, res) ==
    LET dec == decodeInput(m, bs)
        failedDecode == m.input # NilType /\ ~dec.err.nil
        calls == IF failedDecode THEN <<>>
                 ELSE IF m.input = NilType THEN <<[method |-> m.name, args |-> <<>>]>>
                 ELSE <<[method |-> m.name, args |-> <<dec.argv>>]>>
        enc == Marshal(res.resp)
    IN  IF failedDecode
        THEN [buf |-> "", isNil |-> TRUE, err |-> ErrorfWColonW(errDecodingInput, dec.err),
              calls |-> calls, encoded |-> FALSE]
        ELSE IF m.output # NilType /\ enc.err.nil
        THEN [buf |-> enc.buf, isNil |-> FALSE, err |-> NilErr, calls |-> calls, encoded |-> TRUE]
        ELSE IF m.output # NilType
        THEN [buf |-> "", isNil |-> TRUE, err |-> ErrorfWColonW(errEncodingOutput, enc.err),
              calls |-> calls, encoded |-> TRUE]
        ELSE [buf |-> "", isNil |-> TRUE, err |-> res.errv, calls |-> calls, encoded |-> FALSE]

\* mutant: the business method called once more when it returned an error
invokeRetriesOnError(m, bs, res) ==
    LET dec == decodeInput(m, bs)
        failedDecode == m.input # NilType /\ ~dec.err.nil
        once == IF failedDecode THEN <<>>
                ELSE IF m.input = NilType THEN <<[method |-> m.name, args |-> <<>>]>>
                ELSE <<[method |-> m.name, args |-> <<dec.argv>>]>>
        calls == IF res.errv.nil THEN once ELSE once \o once
        enc == Marshal(res.resp)
    IN  IF failedDecode
        THEN [buf |-> "", isNil |-> TRUE, err |-> ErrorfWColonW(errDecodingInput, dec.err),
              calls |-> calls, encoded |-> FALSE]
        ELSE IF ~res.errv.nil
        THEN [buf |-> "", isNil |-> TRUE, err |-> res.errv, calls |-> calls, encoded |-> FALSE]
        ELSE IF m.output = NilType
        THEN [buf |-> "", isNil |-> TRUE, err |-> NilErr, calls |-> calls, encoded |-> FALSE]
        ELSE IF ~enc.err.nil
        THEN [buf |-> "", isNil |-> TRUE, err |-> ErrorfWColonW(errEncodingOutput, enc.err),
              calls |-> calls, encoded |-> TRUE]
        ELSE [buf |-> enc.buf, isNil |-> FALSE, err |-> NilErr, calls |-> calls, encoded |-> TRUE]

\* invoke: result buf/err, and the calls made to m.fn (each with its arguments)
invoke(m, bs, res) ==
    LET dec == decodeInput(m, bs)
        failedDecode == m.input # NilType /\ ~dec.err.nil
        calls == IF failedDecode THEN <<>>
                 ELSE IF m.input = NilType THEN <<[method |-> m.name, args |-> <<>>]>>
                 ELSE <<[method |-> m.name, args |-> <<dec.argv>>]>>
        enc == Marshal(res.resp)
    IN  IF failedDecode
        THEN [buf |-> "", isNil |-> TRUE, err |-> ErrorfWColonW(errDecodingInput, dec.err),
              calls |-> calls, encoded |-> FALSE]
        ELSE IF ~res.errv.nil
        THEN [buf |-> "", isNil |-> TRUE, err |-> res.errv, calls |-> calls, encoded |-> FALSE]
        ELSE IF m.output = NilType
        THEN [buf |-> "", isNil |-> TRUE, err |-> NilErr, calls |-> calls, encoded |-> FALSE]
        ELSE IF ~enc.err.nil
        THEN [buf |-> "", isNil |-> TRUE, err |-> ErrorfWColonW(errEncodingOutput, enc.err),
              calls |-> calls, encoded |-> TRUE]
        ELSE [buf |-> enc.buf, isNil |-> FALSE, err |-> NilErr, calls |-> calls, encoded |-> TRUE]

\* mutant: an unknown service reported as an empty success
callUnknownServiceSucceeds(svcs, service, method, input, res) ==
    IF service \notin DOMAIN svcs
    THEN [buf |-> "", isNil |-> TRUE, err |-> NilErr, calls |-> <<>>, encoded |-> FALSE]
    ELSE IF method \notin DOMAIN svcs[service].methods
    THEN [buf |-> "", isNil |-> TRUE, err |-> ErrorfWQuoted(errMethodNotFound, method),
          calls |-> <<>>, encoded |-> FALSE]
    ELSE invoke(svcs[service].methods[method], input, res)

\* Server.call on the registry svcs
call(svcs, service, method, input, res) ==
    IF service \notin DOMAIN svcs
    THEN [buf |-> "", isNil |-> TRUE, err |-> ErrorfWQuoted(errServiceNotFound, service),
          calls |-> <<>>, encoded |-> FALSE]
    ELSE IF method \notin DOMAIN svcs[service].methods
    THEN [buf |-> "", isNil |-> TRUE, err |-> ErrorfWQuoted(errMethodNotFound, method),
          calls |-> <<>>, encoded |-> FALSE]
    ELSE invoke(svcs[service].methods[method], input, res)

(***************************************************************************)
(* HTTP responses                                                          *)
(***************************************************************************)
StatusOK == 200
StatusBadRequest == 400
StatusNotFound == 404
StatusInternalServerError == 500

\* mutant: w.WriteHeader(code) left out, so the response goes out as 200
ErrorWithoutWriteHeader(message, code) ==
    [code |-> StatusOK, contentType |-> "application/json",
     body |-> [kind |-> "errorResponse", Status |-> code, Message |-> message]]

\* Error(w, error, code): the errorResponse envelope
Error(message, code) ==
    [code |-> code, contentType |-> "application/json",
     body |-> [kind |-> "errorResponse", Status |-> code, Message |-> message]]

\* mutant: the nil check left out, a nil error written as an empty message
httpErrorNoNilCheck(code, err) == Error(err.msg, code)

httpError(code, err) ==
    IF err.nil THEN Error(ErrMethodErrored.msg, code) ELSE Error(err.msg, code)

\* httpOK(w, output): the outputResponse envelope
httpOK(output) ==
    [code |-> StatusOK, contentType |-> "application/json",
     body |-> [kind |-> "outputResponse", Output |-> output]]

\* http.NotFound(w, r)
httpNotFound ==
    [code |-> StatusNotFound, contentType |-> "text/plain; charset=utf-8",
     body |-> [kind |-> "text", Text |-> "404 page not found"]]

\* Server.metadata() on the registry svcs
serverMetadata(svcs) ==
    [Name |-> defaultRPCClassName,
     Services |-> SortByName({serviceMetadata(svcs[k]) : k \in DOMAIN svcs})]

\* the iteration orders `for _, x := range m` may take over a map with the
\* keys S: every sequence that holds each key once
Orderings(S) ==
    {o \in [1..Cardinality(S) -> S] : \A x \in S : \E i \in DOMAIN o : o[i] = x}

\* sort.Slice(xs, func(i, j int) bool { return xs[i].Name < xs[j].Name })
RECURSIVE InsertByName(_, _)
InsertByName(x, xs) ==
    IF xs = <<>> THEN <<x>>
    ELSE IF StrLess(x.Name, Head(xs).Name) THEN <<x>> \o xs
    ELSE <<Head(xs)>> \o InsertByName(x, Tail(xs))

RECURSIVE SortSlice(_)
SortSlice(xs) ==
    IF xs = <<>> THEN <<>> ELSE InsertByName(Head(xs), SortSlice(Tail(xs)))

\* the names a method map may hold, and the iteration orders over them; the
\* range over one service's methods visits its keys in the order mo gives them
MethodKeys == {sM, sMint, sN}

\* mutant: the methods left in the order the map iteration produced them
serviceMetadataInUnsorted(s, mo) ==
    LET order == SelectSeq(mo, LAMBDA k : k \in DOMAIN s.methods)
        ms == [i \in 1..Len(order) |-> methodMetadata(s.methods[order[i]])]
    IN  [Name |-> s.name, Methods |-> ms, Version |-> s.version]

\* service.metadata() when the range over s.methods runs in the order mo
serviceMetadataIn(s, mo) ==
    LET order == SelectSeq(mo, LAMBDA k : k \in DOMAIN s.methods)
        ms == [i \in 1..Len(order) |-> methodMetadata(s.methods[order[i]])]
    IN  [Name |-> s.name, Methods |-> SortSlice(ms), Version |-> s.version]

\* mutant: the services left in the order the map iteration produced them
serverMetadataInUnsorted(svcs, so, mo) ==
    LET ss == [i \in 1..Len(so) |-> serviceMetadataIn(svcs[so[i]], mo)]
    IN  [Name |-> defaultRPCClassName, Services |-> ss]

\* Server.metadata() when the range over rpc.services runs in the order so
serverMetadataIn(svcs, so, mo) ==
    LET ss == [i \in 1..Len(so) |-> serviceMetadataIn(svcs[so[i]], mo)]
    IN  [Name |-> defaultRPCClassName, Services |-> SortSlice(ss)]

\* serverMetadata.types(): input and output type of every method, in order
RECURSIVE methodTypes(_)
methodTypes(ms) ==
    IF ms = <<>> THEN <<>>
    ELSE <<Head(ms).Input, Head(ms).Output>> \o methodTypes(Tail(ms))

RECURSIVE serviceTypes(_)
serviceTypes(ss) ==
    IF ss = <<>> THEN <<>>
    ELSE methodTypes(Head(ss).Methods) \o serviceTypes(Tail(ss))

types(md) == serviceTypes(md.Services)

javascriptTemplateText == "javascript.tmpl"
typescriptTemplateText == "typescript.tmpl"
datePrefix == "__turborpc.Date"

\* generateClientFromTemplate: the template executed over the date prefix,
\* the metadata and the declarations of the types added to the generator
generateClientFromTemplate(templateText, metadata) ==
    [template |-> templateText,
     DatePrefix |-> datePrefix,
     Metadata |-> metadata,
     Symbols |-> types(metadata)]

\* javaScriptClient.GenerateClient(metadata)
GenerateClient(metadata) ==
    [ContentType |-> "text/javascript",
     SourceCode |-> generateClientFromTemplate(javascriptTemplateText, metadata)]

\* typeScriptClient.GenerateClient(metadata)
typeScriptGenerateClient(metadata) ==
    [ContentType |-> "application/typescript",
     SourceCode |-> generateClientFromTemplate(typescriptTemplateText, metadata)]

\* client.GenerateClient(metadata) for the two generators
GenerateClientWith(client, metadata) ==
    IF client = "typeScriptClient" THEN typeScriptGenerateClient(metadata)
    ELSE GenerateClient(metadata)

\* the configured error filter (WithErrorFilter): "none" is the nil filter
ErrorFilters == {"none", "returnsNil", "replaces", "passes"}
applyFilter(filter, err) ==
    CASE filter = "returnsNil" -> NilErr
      [] filter = "replaces" -> ErrorsNew("filtered error")
      [] OTHER -> err

(***************************************************************************)
(* State                                                                   *)
(***************************************************************************)
VARIABLES
    services,      \* Server.services: service name -> service
    errorFilter,   \* Server.errorFilter
    methodLogger,  \* Server.methodLogger is non-nil
    serveClient,   \* Server.serveClient is non-nil
    last,          \* the last completed call on the server and what it did
    counter,       \* the value of each Counter object, by its ref
    calls,         \* the requests being handled step by step, by arrival number
    registrations  \* the RegisterName calls running step by step, by start number

vars ==
    <<services, errorFilter, methodLogger, serveClient, last, counter, calls, registrations>>

\* the option lists NewServer is called with: none, each option alone (the
\* error filter with each of its behaviours), and all three together
Options(filter, logger, client) ==
    [errorFilter |-> filter, methodLogger |-> logger, serveClient |-> client]
ServerOptions ==
    {Options("none", FALSE, FALSE), Options("none", TRUE, FALSE), Options("none", FALSE, TRUE)}
    \cup {Options(f, FALSE, FALSE) : f \in ErrorFilters}
    \cup {Options("passes", TRUE, TRUE)}

\* NewServer(options...)
Init ==
    /\ services = <<>>
    /\ \E o \in ServerOptions :
          /\ errorFilter = o.errorFilter
          /\ methodLogger = o.methodLogger
          /\ serveClient = o.serveClient
    /\ last = [op |-> "NewServer"]
    /\ counter = <<>>
    /\ calls = <<>>
    /\ registrations = <<>>

(***************************************************************************)
(* Registration                                                            *)
(***************************************************************************)
\* the nil interface value handed to Register / RegisterName
\* ref identifies the object a pointer receiver points to; 0 stands for the
\* receivers that carry no state
NilObject == [typ |-> NilReflectType, ref |-> 0]
Objects == {[typ |-> t, ref |-> 0] : t \in Receivers} \cup {NilObject}
\* reflect.TypeOf(r), reflect.ValueOf(r)
TypeOf(r) == r.typ
ValueOf(r) == r.ref

\* mutant: no name is reserved
isReservedNameNever(name) == FALSE

\* name == defaultRPCClassName
isReservedName(name) == name = defaultRPCClassName

\* mutant: the duplicate check left out, the map entry is overwritten
RegisterNameErrorNoDuplicateCheck(svcs, name, r) ==
    IF isReservedName(name) THEN ErrorfNameColonW(name, ErrReservedServiceName)
    ELSE IF ~validServiceType(TypeOf(r)) THEN ErrInvalidService
    ELSE NilErr

\* the error RegisterName returns, NilErr on success
RegisterNameError(svcs, name, r) ==
    IF isReservedName(name) THEN ErrorfNameColonW(name, ErrReservedServiceName)
    ELSE IF name \in DOMAIN svcs THEN ErrorfNameColonW(name, ErrServiceRegistered)
    ELSE IF ~validServiceType(TypeOf(r)) THEN ErrInvalidService
    ELSE NilErr

\* RegisterName gets as far as validServiceType(typ) with the nil reflect.Type:
\* typ.NumMethod() is a method call on a nil interface, a run-time panic
RegisterNamePanics(svcs, name, r) ==
    /\ ~isReservedName(name)
    /\ name \notin DOMAIN svcs
    /\ TypeOf(r).Nil

\* mutant: the service built, and its methods logged, before the checks
RegisterNameBuildsBeforeChecks(name, r) ==
    LET panics == RegisterNamePanics(services, name, r)
        err == IF panics THEN NilErr ELSE RegisterNameError(services, name, r)
        stored == ~panics /\ err.nil
    IN  /\ stored => Cardinality(DOMAIN services \cup {name}) <= MaxServices
        /\ services' = IF stored
                       THEN [k \in DOMAIN services \cup {name} |->
                                IF k = name THEN newService(name, TypeOf(r), ValueOf(r))
                                ELSE services[k]]
                       ELSE services
        /\ last' = [op |-> "RegisterName", name |-> name, r |-> r, err |-> err,
                    panic |-> panics,
                    registered |-> name \in DOMAIN services,
                    logged |-> IF ~TypeOf(r).Nil
                               THEN LoggerCalls(name, TypeOf(r), methodLogger)
                               ELSE <<>>]
        /\ UNCHANGED <<errorFilter, methodLogger, serveClient, counter, calls, registrations>>

RegisterName(name, r) ==
    LET panics == RegisterNamePanics(services, name, r)
        err == IF panics THEN NilErr ELSE RegisterNameError(services, name, r)
        stored == ~panics /\ err.nil
    IN  /\ stored => Cardinality(DOMAIN services \cup {name}) <= MaxServices
        /\ services' = IF stored
                       THEN [k \in DOMAIN services \cup {name} |->
                                IF k = name THEN newService(name, TypeOf(r), ValueOf(r))
                                ELSE services[k]]
                       ELSE services
        /\ last' = [op |-> "RegisterName", name |-> name, r |-> r, err |-> err,
                    panic |-> panics,
                    registered |-> name \in DOMAIN services,
                    logged |-> IF stored
                               THEN LoggerCalls(name, TypeOf(r), methodLogger)
                               ELSE <<>>]
        /\ UNCHANGED <<errorFilter, methodLogger, serveClient, counter, calls, registrations>>

\* Register(r): findServiceName(reflect.TypeOf(r)) calls typ.Kind() first, a
\* run-time panic on the nil reflect.Type
Register(r) ==
    IF TypeOf(r).Nil
    THEN /\ last' = [op |-> "Register", name |-> sEmpty, r |-> r, err |-> NilErr,
                     panic |-> TRUE, registered |-> FALSE, logged |-> <<>>]
         /\ UNCHANGED <<services, errorFilter, methodLogger, serveClient, counter, calls, registrations>>
    ELSE RegisterName(findServiceName(TypeOf(r)), r)

(***************************************************************************)
(* ServeHTTP                                                               *)
(***************************************************************************)
MethodNames == {sM, sN, sMint, sWcap, sEmpty}

Req(httpMethod, service, method, body, bodyErr) ==
    [Method |-> httpMethod, service |-> service, method |-> method,
     body |-> body, bodyErr |-> bodyErr]

\* the requests sent: POSTs with every query and body (or a body whose Read
\* fails), and GET / PUT requests
Requests ==
    {Req("POST", s, m, b, FALSE) : s \in RequestServices, m \in MethodNames, b \in Bodies}
    \cup {Req("POST", s, m, "", TRUE) : s \in {sA, sEmpty}, m \in {sM}}
    \cup {Req(h, s, sM, "", FALSE) : h \in {"GET", "PUT"}, s \in {sA, sEmpty}}

\* whether the request gets as far as calling the business method
ReachesMethod(svcs, req) ==
    /\ req.Method = "POST"
    /\ req.service # sEmpty /\ req.method # sEmpty
    /\ ~req.bodyErr
    /\ req.service \in DOMAIN svcs
    /\ req.method \in DOMAIN svcs[req.service].methods

NoResult == [resp |-> NoValue, errv |-> NilErr]

\* the results the business method may return for this request
ResultsFor(svcs, req) ==
    IF ReachesMethod(svcs, req)
    THEN LET m == svcs[req.service].methods[req.method]
         IN  IF m.input # NilType /\ ~decodeInput(m, req.body).err.nil
             THEN {NoResult}
             ELSE BusinessResults(m)
    ELSE {NoResult}

\* the exchange: the response written, whether Server.call was entered, the
\* error it returned, the business calls made, and the errors handed to the
\* error filter
Exchange(resp, dispatched, c, filtered) ==
    [resp |-> resp, dispatched |-> dispatched, err |-> c.err, calls |-> c.calls,
     encoded |-> c.encoded, filtered |-> filtered]

NoCall == [buf |-> "", isNil |-> TRUE, err |-> NilErr, calls |-> <<>>, encoded |-> FALSE]

\* mutant: the missing-identifier checks left out, the lookup reports them
ServeHTTPWithoutIdentifierChecks(svcs, filter, client, req, res) ==
    IF client /\ req.Method = "GET"
    THEN LET sourceClient == GenerateClient(serverMetadata(svcs))
         IN  Exchange([code |-> StatusOK, contentType |-> sourceClient.ContentType,
                       body |-> [kind |-> "source", SourceCode |-> sourceClient.SourceCode]],
                      FALSE, NoCall, <<>>)
    ELSE IF req.Method # "POST"
    THEN Exchange(httpNotFound, FALSE, NoCall, <<>>)
    ELSE IF req.bodyErr
    THEN Exchange(httpError(StatusInternalServerError, ErrorsNew("test error")),
                  FALSE, NoCall, <<>>)
    ELSE LET c == call(svcs, req.service, req.method, req.body, res)
         IN  IF ~c.err.nil
             THEN IF ErrorsIs(c.err, errServiceNotFound) \/ ErrorsIs(c.err, errMethodNotFound)
                  THEN Exchange(httpError(StatusNotFound, c.err), TRUE, c, <<>>)
                  ELSE IF ErrorsIs(c.err, errEncodingOutput)
                  THEN Exchange(httpError(StatusInternalServerError, c.err), TRUE, c, <<>>)
                  ELSE IF filter # "none"
                  THEN Exchange(httpError(StatusBadRequest, applyFilter(filter, c.err)),
                                TRUE, c, <<c.err>>)
                  ELSE Exchange(httpError(StatusBadRequest, c.err), TRUE, c, <<>>)
             ELSE IF c.isNil
             THEN Exchange(httpOK(nullJSON), TRUE, c, <<>>)
             ELSE Exchange(httpOK(c.buf), TRUE, c, <<>>)

\* mutant: a GET that is not answered with the client source is dispatched
\* like a POST
ServeHTTPDispatchesGet(svcs, filter, client, req, res) ==
    IF client /\ req.Method = "GET"
    THEN LET sourceClient == GenerateClient(serverMetadata(svcs))
         IN  Exchange([code |-> StatusOK, contentType |-> sourceClient.ContentType,
                       body |-> [kind |-> "source", SourceCode |-> sourceClient.SourceCode]],
                      FALSE, NoCall, <<>>)
    ELSE IF req.Method \notin {"POST", "GET"}
    THEN Exchange(httpNotFound, FALSE, NoCall, <<>>)
    ELSE IF req.service = sEmpty
    THEN Exchange(httpError(StatusBadRequest, errNoService), FALSE, NoCall, <<>>)
    ELSE IF req.method = sEmpty
    THEN Exchange(httpError(StatusBadRequest, errNoMethod), FALSE, NoCall, <<>>)
    ELSE IF req.bodyErr
    THEN Exchange(httpError(StatusInternalServerError, ErrorsNew("test error")),
                  FALSE, NoCall, <<>>)
    ELSE LET c == call(svcs, req.service, req.method, req.body, res)
         IN  IF ~c.err.nil
             THEN IF ErrorsIs(c.err, errServiceNotFound) \/ ErrorsIs(c.err, errMethodNotFound)
                  THEN Exchange(httpError(StatusNotFound, c.err), TRUE, c, <<>>)
                  ELSE IF ErrorsIs(c.err, errEncodingOutput)
                  THEN Exchange(httpError(StatusInternalServerError, c.err), TRUE, c, <<>>)
                  ELSE IF filter # "none"
                  THEN Exchange(httpError(StatusBadRequest, applyFilter(filter, c.err)),
                                TRUE, c, <<c.err>>)
                  ELSE Exchange(httpError(StatusBadRequest, c.err), TRUE, c, <<>>)
             ELSE IF c.isNil
             THEN Exchange(httpOK(nullJSON), TRUE, c, <<>>)
             ELSE Exchange(httpOK(c.buf), TRUE, c, <<>>)

ServeHTTPExchange(svcs, filter, client, req, res) ==
    IF client /\ req.Method = "GET"
    THEN LET sourceClient == GenerateClient(serverMetadata(svcs))
         IN  Exchange([code |-> StatusOK, contentType |-> sourceClient.ContentType,
                       body |-> [kind |-> "source", SourceCode |-> sourceClient.SourceCode]],
                      FALSE, NoCall, <<>>)
    ELSE IF req.Method # "POST"
    THEN Exchange(httpNotFound, FALSE, NoCall, <<>>)
    ELSE IF req.service = sEmpty
    THEN Exchange(httpError(StatusBadRequest, errNoService), FALSE, NoCall, <<>>)
    ELSE IF req.method = sEmpty
    THEN Exchange(httpError(StatusBadRequest, errNoMethod), FALSE, NoCall, <<>>)
    ELSE IF req.bodyErr
    THEN Exchange(httpError(StatusInternalServerError, ErrorsNew("test error")),
                  FALSE, NoCall, <<>>)
    ELSE LET c == call(svcs, req.service, req.method, req.body, res)
         IN  IF ~c.err.nil
             THEN IF ErrorsIs(c.err, errServiceNotFound) \/ ErrorsIs(c.err, errMethodNotFound)
                  THEN Exchange(httpError(StatusNotFound, c.err), TRUE, c, <<>>)
                  ELSE IF ErrorsIs(c.err, errEncodingOutput)
                  THEN Exchange(httpError(StatusInternalServerError, c.err), TRUE, c, <<>>)
                  ELSE IF filter # "none"
                  THEN Exchange(httpError(StatusBadRequest, applyFilter(filter, c.err)),
                                TRUE, c, <<c.err>>)
                  ELSE Exchange(httpError(StatusBadRequest, c.err), TRUE, c, <<>>)
             ELSE IF c.isNil
             THEN Exchange(httpOK(nullJSON), TRUE, c, <<>>)
             ELSE Exchange(httpOK(c.buf), TRUE, c, <<>>)

ServeHTTP(req, res) ==
    /\ last' = [op |-> "ServeHTTP", req |-> req, res |-> res,
                x |-> ServeHTTPExchange(services, errorFilter, serveClient, req, res)]
    /\ UNCHANGED <<services, errorFilter, methodLogger, serveClient, counter, calls, registrations>>

(***************************************************************************)
(* Metadata and client generation                                          *)
(***************************************************************************)
\* mutant: the snapshot's server version written back into the services
MetadataStoresVersion(so, mo) ==
    /\ last' = [op |-> "metadata", so |-> so, mo |-> mo,
                afterRequest |-> last.op = "ServeHTTP",
                md |-> serverMetadataIn(services, so, mo),
                prev |-> IF last.op = "metadata" THEN <<last.md>> ELSE <<>>]
    /\ services' = [n \in DOMAIN services |->
                       [services[n] EXCEPT !.version =
                           calculateServerVersion(serverMetadataIn(services, so, mo))]]
    /\ UNCHANGED <<errorFilter, methodLogger, serveClient, counter, calls, registrations>>

\* rpc.metadata(), the map iterations running in the orders so and mo;
\* afterRequest tells whether the call before was a request, prev is the
\* snapshot the call before returned when it was metadata() too
Metadata(so, mo) ==
    /\ last' = [op |-> "metadata", so |-> so, mo |-> mo,
                afterRequest |-> last.op = "ServeHTTP",
                md |-> serverMetadataIn(services, so, mo),
                prev |-> IF last.op = "metadata" THEN <<last.md>> ELSE <<>>]
    /\ UNCHANGED <<services, errorFilter, methodLogger, serveClient, counter, calls, registrations>>

\* rpc.clientSourceCode(client); prev is the text of the call before when it
\* used the same generator and no other call came in between
clientSourceCode(client, so, mo) ==
    /\ last' = [op |-> "clientSourceCode", client |-> client, so |-> so, mo |-> mo,
                afterRequest |-> last.op = "ServeHTTP",
                src |-> GenerateClientWith(client, serverMetadataIn(services, so, mo)).SourceCode,
                prev |-> IF last.op = "clientSourceCode" /\ last.client = client
                         THEN <<last.src>> ELSE <<>>]
    /\ UNCHANGED <<services, errorFilter, methodLogger, serveClient, counter, calls, registrations>>

JavaScriptClient(so, mo) == clientSourceCode("javaScriptClient", so, mo)
TypeScriptClient(so, mo) == clientSourceCode("typeScriptClient", so, mo)

(***************************************************************************)
(* Specification                                                           *)
(***************************************************************************)
Next ==
    \/ \E name \in ServiceNames, r \in Objects : RegisterName(name, r)
    \/ \E r \in Objects : Register(r)
    \/ \E req \in Requests : \E res \in ResultsFor(services, req) : ServeHTTP(req, res)

Spec == Init /\ [][Next]_vars

(***************************************************************************)
(* The server with metadata and client generation next to registration and *)
(* dispatch                                                                *)
(***************************************************************************)
InitClient ==
    /\ services = <<>>
    /\ errorFilter = "none"
    /\ methodLogger = FALSE
    /\ serveClient \in BOOLEAN
    /\ last = [op |-> "NewServer"]
    /\ counter = <<>>
    /\ calls = <<>>
    /\ registrations = <<>>

\* the requests sent next to the generation calls
ClientRequests ==
    {Req("GET", sA, sM, "", FALSE),
     Req("POST", sA, sM, "", FALSE),
     Req("POST", sA, sN, "1", FALSE),
     Req("POST", sB, sM, "\"boom\"", FALSE),
     Req("POST", sB, sN, "", FALSE)}

\* the objects and names registered next to the generation calls
ClientObjects == {[typ |-> t, ref |-> 0] : t \in {tA, tB}}
ClientServiceNames == {sA, sB, sEmpty}

NextClient ==
    \/ \E name \in ClientServiceNames, r \in ClientObjects : RegisterName(name, r)
    \/ \E r \in ClientObjects : Register(r)
    \/ \E req \in ClientRequests : \E res \in ResultsFor(services, req) : ServeHTTP(req, res)
    \/ \E so \in Orderings(DOMAIN services), mo \in Orderings(MethodKeys) : Metadata(so, mo)
    \/ \E so \in Orderings(DOMAIN services), mo \in Orderings(MethodKeys) :
          JavaScriptClient(so, mo)
    \/ \E so \in Orderings(DOMAIN services), mo \in Orderings(MethodKeys) :
          TypeScriptClient(so, mo)

SpecClient == InitClient /\ [][NextClient]_vars

(***************************************************************************)
(* Method versions as a function of the descriptor                         *)
(***************************************************************************)
DescriptorNames == {sM, sMint, sN}
DescriptorTypes == {NilType, "int", "string"}
Descriptors == [Name : DescriptorNames, Input : DescriptorTypes, Output : DescriptorTypes]

InitMV ==
    /\ services = <<>>
    /\ errorFilter = "none"
    /\ methodLogger = FALSE
    /\ serveClient = FALSE
    /\ counter = <<>>
    /\ calls = <<>>
    /\ registrations = <<>>
    /\ last \in [op : {"descriptors"}, a : Descriptors, b : Descriptors]

\* calculateMethodVersion applied to both descriptors
CalculateMethodVersions ==
    /\ last.op = "descriptors"
    /\ last' = [op |-> "calculateMethodVersion", a |-> last.a, b |-> last.b,
                va |-> calculateMethodVersion(last.a),
                vb |-> calculateMethodVersion(last.b)]
    /\ UNCHANGED <<services, errorFilter, methodLogger, serveClient, counter, calls, registrations>>

NextMV == CalculateMethodVersions

SpecMV == InitMV /\ [][NextMV]_vars

(***************************************************************************)
(* Versions of a server schema before and after one change                 *)
(***************************************************************************)
\* "C": a further service name, sorted after "B"
sC == <<67>>
SchemaServiceNames == {sA, sC}

\* method sets of one or two descriptors with distinct names
SchemaMethodSets ==
    {{d} : d \in Descriptors}
    \cup {{d, e} : d \in {x \in Descriptors : x.Name = sM},
                   e \in {x \in Descriptors : x.Name = sN}}

\* the metadata of a service built from a name and a method set, as newService
\* and service.metadata() produce it
SchemaService(name, ms) ==
    LET md == [Name |-> name, Methods |-> SortByName(ms), Version |-> <<>>]
    IN  [md EXCEPT !.Version = calculateServiceVersion(md)]

\* an unchanged second service of the server, named "B"
SiblingService == SchemaService(sB, {[Name |-> sM, Input |-> NilType, Output |-> NilType]})

\* the metadata of the server that holds the service, and the sibling if any
SchemaServer(svc, sibling) ==
    [Name |-> defaultRPCClassName,
     Services |-> SortByName({svc} \cup (IF sibling THEN {SiblingService} ELSE {}))]

\* one method of the service replaced by a different descriptor
MethodChanges ==
    {[change |-> "method", name |-> n, name2 |-> n, ms |-> ms, m |-> m, m2 |-> m2] :
        n \in {sA}, ms \in SchemaMethodSets, m \in Descriptors, m2 \in Descriptors}
\* the service renamed
ServiceChanges ==
    {[change |-> "service", name |-> n, name2 |-> n2, ms |-> ms, m |-> m, m2 |-> m] :
        n \in SchemaServiceNames, n2 \in SchemaServiceNames, ms \in SchemaMethodSets,
        m \in Descriptors}
SchemaChanges ==
    {c \in MethodChanges \cup ServiceChanges :
        /\ c.m \in c.ms
        /\ c.change = "method" =>
              (c.m2 # c.m /\ \A o \in c.ms \ {c.m} : o.Name # c.m2.Name)
        /\ c.change = "service" =>
              (c.name2 # c.name /\ c.m = CHOOSE x \in c.ms : TRUE)}

InitSV ==
    /\ services = <<>>
    /\ errorFilter = "none"
    /\ methodLogger = FALSE
    /\ serveClient = FALSE
    /\ counter = <<>>
    /\ calls = <<>>
    /\ registrations = <<>>
    /\ \E c \in SchemaChanges, sibling \in BOOLEAN :
          last = [op |-> "schemas", c |-> c, sibling |-> sibling]

\* the three version functions applied to the schema before (a) and after (b)
CalculateVersions ==
    /\ last.op = "schemas"
    /\ LET c == last.c
           sa == SchemaService(c.name, c.ms)
           sb == SchemaService(c.name2, (c.ms \ {c.m}) \cup {c.m2})
       IN  last' = [op |-> "versions", c |-> c, sibling |-> last.sibling,
                    method |-> [a |-> calculateMethodVersion(c.m),
                                b |-> calculateMethodVersion(c.m2)],
                    service |-> [a |-> sa.Version, b |-> sb.Version],
                    server |-> [a |-> calculateServerVersion(SchemaServer(sa, last.sibling)),
                                b |-> calculateServerVersion(SchemaServer(sb, last.sibling))]]
    /\ UNCHANGED <<services, errorFilter, methodLogger, serveClient, counter, calls, registrations>>

NextSV == CalculateVersions

SpecSV == InitSV /\ [][NextSV]_vars

(***************************************************************************)
(* The counter service: concurrent requests for Counter.Add                *)
(***************************************************************************)
\* c := &Counter{}
CounterRef == 1
CounterObject == [typ |-> tCounter, ref |-> CounterRef]

\* mutant: Add with a value receiver, the addition made on a copy
CounterAddOnCopy(v, delta) == [value |-> v, ret |-> v + delta]

\* (*atomic.Int64)(c).Add(delta): the new value is stored and returned, as
\* one atomic step
CounterAdd(v, delta) == [value |-> v + delta, ret |-> v + delta]

InitCounter ==
    /\ services = <<>>
    /\ errorFilter = "none"
    /\ methodLogger = FALSE
    /\ serveClient = FALSE
    /\ last = [op |-> "NewServer"]
    /\ counter = [o \in {CounterRef} |-> 0]
    /\ calls = <<>>
    /\ registrations = <<>>

\* rpc.Register(&Counter{})
RegisterCounter == Register(CounterObject)

CounterBodies == {"1", "-1", "malformed input"}
CounterRequests == {Req("POST", sCounter, sAdd, b, FALSE) : b \in CounterBodies}

\* the calls whose handler has returned from the business method
Applied == {i \in DOMAIN calls : calls[i].ran}

\* a request arrives and its handler starts; after holds the requests that
\* were answered before
Start(req) ==
    /\ sCounter \in DOMAIN services
    /\ Len(calls) < MaxCalls
    /\ calls' = Append(calls,
                        [pc |-> "started", req |-> req,
                         after |-> {i \in DOMAIN calls : calls[i].pc = "done"},
                         ran |-> FALSE, seq |-> 0, delta |-> 0, ret |-> 0,
                         res |-> NoResult, x |-> <<>>])
    /\ UNCHANGED <<services, errorFilter, methodLogger, serveClient, last, counter, registrations>>

\* the handler of request i runs Server.call: the lookup, decodeInput and, when
\* both succeed, m.fn.Call on the receiver bound by newService, which is
\* Counter.Add; the response is kept until it is written
Invoke(i) ==
    /\ i \in DOMAIN calls /\ calls[i].pc = "started"
    /\ LET req == calls[i].req
           m == services[req.service].methods[req.method]
           dec == decodeInput(m, req.body)
           runs == ReachesMethod(services, req) /\ dec.err.nil
           recv == services[req.service].value
           add == CounterAdd(counter[recv], dec.argv.i)
           res == IF runs THEN [resp |-> Val("int64", add.ret, ""), errv |-> NilErr]
                  ELSE NoResult
       IN  /\ counter' = IF runs THEN [counter EXCEPT ![recv] = add.value] ELSE counter
           /\ calls' = [calls EXCEPT ![i] =
                  [@ EXCEPT !.pc = "returned", !.ran = runs,
                            !.seq = IF runs THEN Cardinality(Applied) + 1 ELSE 0,
                            !.delta = IF runs THEN dec.argv.i ELSE 0,
                            !.ret = IF runs THEN add.ret ELSE 0,
                            !.res = res,
                            !.x = ServeHTTPExchange(services, errorFilter, serveClient,
                                                    req, res)]]
    /\ UNCHANGED <<services, errorFilter, methodLogger, serveClient, last, registrations>>

\* the handler of request i writes its response
Respond(i) ==
    /\ i \in DOMAIN calls /\ calls[i].pc = "returned"
    /\ calls' = [calls EXCEPT ![i].pc = "done"]
    /\ last' = [op |-> "ServeHTTP", req |-> calls[i].req, res |-> calls[i].res,
                x |-> calls[i].x]
    /\ UNCHANGED <<services, errorFilter, methodLogger, serveClient, counter, registrations>>

NextCounter ==
    \/ RegisterCounter
    \/ \E req \in CounterRequests : Start(req)
    \/ \E i \in 1..MaxCalls : Invoke(i)
    \/ \E i \in 1..MaxCalls : Respond(i)

SpecCounter == InitCounter /\ [][NextCounter]_vars

(***************************************************************************)
(* Registration running beside request handlers: RegisterName and          *)
(* newService statement by statement, and the reads of Server.services     *)
(* made by call and metadata on the handlers' goroutines                   *)
(***************************************************************************)
\* largest number of RegisterName calls made in one run
MaxRegistrations == 2
\* largest number of reads of the registry made by handlers in one run
MaxReads == 2

RaceServiceNames == {sA, sB, defaultRPCClassName}
RaceObjects == {[typ |-> t, ref |-> 0] : t \in {tA, tB, tNoMethods}}

\* the reads of the registry: rpc.services[service] in call, and the range
\* over rpc.services in metadata
CallRead(service) == [kind |-> "call", service |-> service]
MetadataRead == [kind |-> "metadata", service |-> sEmpty]
RegistryReads == {CallRead(sA), CallRead(sB), MetadataRead}

InitRace ==
    /\ services = <<>>
    /\ errorFilter = "none"
    /\ methodLogger \in BOOLEAN
    /\ serveClient = FALSE
    /\ last = [op |-> "NewServer"]
    /\ counter = <<>>
    /\ calls = <<>>
    /\ registrations = <<>>

\* the runtime has stopped the process: "fatal error: concurrent map read
\* and map write"
Crashed == last.op = "read" /\ last.fatal

\* a registration is inside the assignment rpc.services[name] = ...
Writing == \E j \in DOMAIN registrations : registrations[j].pc = "writing"
\* a handler is inside a read of rpc.services
Reading == \E i \in DOMAIN calls : calls[i].pc = "reading"

\* s := &service{name, typ, value, methods: make(map[string]*method)}
allocService(name, typ, value) ==
    [name |-> name, version |-> <<>>, typ |-> typ, value |-> value, methods |-> <<>>]

\* one turn of the loop of newService, for typ.Method(i)
discoverMethod(s, i) ==
    LET m == ExportedMethods(s.typ)[i]
    IN  IF ~isSuitableMethod(m) THEN s
        ELSE [s EXCEPT !.methods = [k \in DOMAIN s.methods \cup {m.Name} |->
                                        IF k = m.Name THEN newMethod(m) ELSE s.methods[k]]]

\* mutant: the service returned without its version
setVersionSkipped(s) == s

\* s.version = calculateServiceVersion(s.metadata())
setVersion(s) == [s EXCEPT !.version = calculateServiceVersion(serviceMetadata(s))]

\* what is kept of a call that has returned: its slot; what it did is in last
Returned == [pc |-> "done"]
RegisterNameReturned(g, registered) ==
    [op |-> "RegisterName", name |-> g.name, r |-> g.r, err |-> g.err, panic |-> FALSE,
     registered |-> registered, logged |-> g.logged]

\* RegisterName up to the first statement of newService: the checks on the
\* name, the lookup of the name and the check of the type; the caller makes
\* its registrations one after the other
RegisterNameBegin(name, r) ==
    /\ ~Crashed
    /\ Len(registrations) < MaxRegistrations
    /\ \A j \in DOMAIN registrations : registrations[j].pc = "done"
    /\ LET err == RegisterNameError(services, name, r)
           g == [pc |-> "discover", name |-> name, r |-> r, err |-> err, i |-> 1,
                 logged |-> <<>>, registered |-> name \in DOMAIN services,
                 svc |-> allocService(name, TypeOf(r), ValueOf(r))]
       IN  /\ err.nil => Cardinality(DOMAIN services \cup {name}) <= MaxServices
           /\ registrations' = Append(registrations, IF err.nil THEN g ELSE Returned)
           /\ last' = IF err.nil THEN last ELSE RegisterNameReturned(g, g.registered)
    /\ UNCHANGED <<services, errorFilter, methodLogger, serveClient, counter, calls>>

\* newService: one turn of the discovery loop, with the call of the logger
Discover(j) ==
    /\ ~Crashed
    /\ j \in DOMAIN registrations /\ registrations[j].pc = "discover"
    /\ LET g == registrations[j]
           m == ExportedMethods(g.svc.typ)[g.i]
       IN  registrations' = [registrations EXCEPT ![j] =
               [g EXCEPT !.svc = discoverMethod(g.svc, g.i),
                         !.logged = IF isSuitableMethod(m) /\ methodLogger
                                    THEN Append(@, [service |-> g.svc.name, method |-> m.Name])
                                    ELSE @,
                         !.i = @ + 1,
                         !.pc = IF g.i = NumMethod(g.svc.typ) THEN "version" ELSE "discover"]]
    /\ UNCHANGED <<services, errorFilter, methodLogger, serveClient, last, counter, calls>>

\* newService: the version is computed and the service returned
ComputeVersion(j) ==
    /\ ~Crashed
    /\ j \in DOMAIN registrations /\ registrations[j].pc = "version"
    /\ registrations' = [registrations EXCEPT ![j] =
           [@ EXCEPT !.svc = setVersion(@), !.pc = "assign"]]
    /\ UNCHANGED <<services, errorFilter, methodLogger, serveClient, last, counter, calls>>

\* rpc.services[name] = s begins: the map is being written; nothing in
\* Server keeps a handler from reading it meanwhile
AssignBegin(j) ==
    /\ ~Crashed
    /\ j \in DOMAIN registrations /\ registrations[j].pc = "assign"
    /\ registrations' = [registrations EXCEPT ![j].pc = "writing"]
    /\ calls' = [i \in DOMAIN calls |->
                    IF calls[i].pc = "reading" THEN [calls[i] EXCEPT !.raced = TRUE]
                    ELSE calls[i]]
    /\ UNCHANGED <<services, errorFilter, methodLogger, serveClient, last, counter>>

\* rpc.services[name] = s is complete and RegisterName returns nil
AssignEnd(j) ==
    /\ ~Crashed
    /\ j \in DOMAIN registrations /\ registrations[j].pc = "writing"
    /\ LET g == registrations[j]
       IN  /\ services' = [k \in DOMAIN services \cup {g.name} |->
                              IF k = g.name THEN g.svc ELSE services[k]]
           /\ last' = RegisterNameReturned(g, g.registered)
    /\ registrations' = [registrations EXCEPT ![j] = Returned]
    /\ UNCHANGED <<errorFilter, methodLogger, serveClient, counter, calls>>

\* a handler starts a read of rpc.services
ReadBegin(rd) ==
    /\ ~Crashed
    /\ Len(calls) < MaxReads
    /\ calls' = Append(calls, [pc |-> "reading", read |-> rd, raced |-> Writing])
    /\ UNCHANGED <<services, errorFilter, methodLogger, serveClient, last, counter,
                   registrations>>

\* the services a read of the registry returns
Stored == {services[n] : n \in DOMAIN services}
\* the services a registration is storing at this moment
BeingStored ==
    {registrations[j].svc : j \in {k \in DOMAIN registrations : registrations[k].pc = "writing"}}

\* what a read yields: the entry of the name (call) or all entries (metadata);
\* a read that overlapped a write is a data race on the map, which the runtime
\* may detect (fatal) and which may or may not see the entries present or
\* being stored
ReadOutcomes(c) ==
    LET wanted(S) == IF c.read.kind = "call" THEN {s \in S : s.name = c.read.service} ELSE S
    IN  IF ~c.raced
        THEN {[fatal |-> FALSE, seen |-> wanted(Stored)]}
        ELSE {[fatal |-> TRUE, seen |-> {}]}
             \cup {[fatal |-> FALSE, seen |-> S] : S \in SUBSET wanted(Stored \cup BeingStored)}

\* the read of handler i ends with one of its outcomes
ReadEnd(i) ==
    /\ ~Crashed
    /\ i \in DOMAIN calls /\ calls[i].pc = "reading"
    /\ \E out \in ReadOutcomes(calls[i]) :
          last' = [op |-> "read", read |-> calls[i].read, raced |-> calls[i].raced,
                   fatal |-> out.fatal, seen |-> out.seen]
    /\ calls' = [calls EXCEPT ![i] = Returned]
    /\ UNCHANGED <<services, errorFilter, methodLogger, serveClient, counter, registrations>>

NextRace ==
    \/ \E name \in RaceServiceNames, r \in RaceObjects : RegisterNameBegin(name, r)
    \/ \E j \in 1..MaxRegistrations : Discover(j)
    \/ \E j \in 1..MaxRegistrations : ComputeVersion(j)
    \/ \E j \in 1..MaxRegistrations : AssignBegin(j)
    \/ \E j \in 1..MaxRegistrations : AssignEnd(j)
    \/ \E rd \in RegistryReads : ReadBegin(rd)
    \/ \E i \in 1..MaxReads : ReadEnd(i)

SpecRace == InitRace /\ [][NextRace]_vars

(***************************************************************************)
(* The echo services: methods that return their argument                   *)
(***************************************************************************)
sTestServiceEcho == <<84, 101, 115, 116, 83, 101, 114, 118, 105, 99, 101, 69, 99, 104, 111>>
sTestService1 == <<84, 101, 115, 116, 83, 101, 114, 118, 105, 99, 101, 49>>
sEcho == <<69, 99, 104, 111>>
sPointer == <<80, 111, 105, 110, 116, 101, 114>>

\* func (c *TestServiceEcho) Echo(ctx, input any) (any, error)
mEcho == Meth(sEcho, TRUE, <<rcv, ctx, "any">>, <<"any", typeOfError>>)
\* func (c *TestService1) Pointer(ctx, msg *string) (string, error)
mPointer == Meth(sPointer, TRUE, <<rcv, ctx, "*string">>, <<"string", typeOfError>>)
tTestServiceEcho == GoType(sTestServiceEcho, TRUE, <<mEcho>>)
tTestService1 == GoType(sTestService1, TRUE, <<mPointer>>)

EchoObjects == {[typ |-> t, ref |-> 0] : t \in {tTestServiceEcho, tTestService1}}
EchoBodies == {"", "malformed input", "null", "1", "-1", "\"boom\""}
EchoRequests ==
    {Req("POST", s, m, b, FALSE) :
        s \in {sTestServiceEcho, sTestService1}, m \in {sEcho, sPointer}, b \in EchoBodies}

\* the bodies of the two methods: return input, nil and return *msg, nil
EchoBody(input) == [resp |-> input, errv |-> NilErr]
PointerBody(msg) == [resp |-> Deref(msg), errv |-> NilErr]

\* what the method the request reaches returns for the argument it is called with
EchoResult(svcs, req) ==
    IF ReachesMethod(svcs, req)
    THEN LET dec == decodeInput(svcs[req.service].methods[req.method], req.body)
         IN  IF ~dec.err.nil THEN NoResult
             ELSE IF req.method = sEcho THEN EchoBody(dec.argv)
             ELSE PointerBody(dec.argv)
    ELSE NoResult

InitEcho ==
    /\ services = <<>>
    /\ errorFilter = "none"
    /\ methodLogger = FALSE
    /\ serveClient = FALSE
    /\ last = [op |-> "NewServer"]
    /\ counter = <<>>
    /\ calls = <<>>
    /\ registrations = <<>>

NextEcho ==
    \/ \E r \in EchoObjects : Register(r)
    \/ \E req \in EchoRequests : ServeHTTP(req, EchoResult(services, req))

SpecEcho == InitEcho /\ [][NextEcho]_vars

(***************************************************************************)
(* The generated JavaScript client calling the server: call() of the       *)
(* template, the service classes and the aggregate class                   *)
(***************************************************************************)
\* res.headers.get(name): the headers Error and httpOK set on the response;
\* any other header is absent (null)
HeaderNull == [null |-> TRUE, value |-> <<>>]
HeaderValue(v) == [null |-> FALSE, value |-> v]
ResponseHeadersGet(resp, name) ==
    CASE name = "Content-Type" -> HeaderValue(resp.contentType)
      [] name = "X-Content-Type-Options" -> HeaderValue("nosniff")
      [] OTHER -> HeaderNull

\* the version a client generated from the registry svcs embeds, and the
\* version of the server with the registry svcs
VersionOf(svcs) == calculateServerVersion(serverMetadata(svcs))
\* the clients generated from this server so far: one for each registry the
\* server had, and the test's client with a version of its own
wrongVersion == <<[b |-> 257, d |-> <<>>]>>
ClientVersions(svcs) ==
    {VersionOf([k \in S |-> svcs[k]]) : S \in SUBSET DOMAIN svcs} \cup {wrongVersion}

\* async function call(url, headers, service, method, input, clientVersion,
\* onVersionMismatch), on the response resp: the callbacks invoked and the
\* way the promise settles, in order
jsCall(resp, clientVersion, onVersionMismatch) ==
    LET serverVersion == ResponseHeadersGet(resp, "X-Server-Version")
        isMismatched == /\ ~serverVersion.null /\ serverVersion.value # <<>>
                        /\ clientVersion # <<>>
                        /\ clientVersion # serverVersion.value
        notified == IF onVersionMismatch = "function" /\ isMismatched
                    THEN <<[ev |-> "onVersionMismatch", clientVersion |-> clientVersion,
                            serverVersion |-> serverVersion.value]>>
                    ELSE <<>>
        settled == IF resp.code # StatusOK
                   THEN [ev |-> "reject", message |-> resp.body.Message]
                   ELSE [ev |-> "resolve", output |-> resp.body.Output]
    IN  notified \o <<settled>>

\* the hook a service instance calls: its own, or inside the aggregate the
\* closure that calls the aggregate's hook when that is a function
ServiceHook(via, hook) ==
    IF via = "aggregate" THEN "function" ELSE hook
Forwarded(via, hook, events) ==
    IF via = "aggregate" /\ hook # "function"
    THEN SelectSeq(events, LAMBDA e : e.ev # "onVersionMismatch")
    ELSE events

InitMismatch ==
    /\ services = <<>>
    /\ errorFilter = "none"
    /\ methodLogger = FALSE
    /\ serveClient = TRUE
    /\ last = [op |-> "NewServer"]
    /\ counter = <<>>
    /\ calls = <<>>
    /\ registrations = <<>>

MismatchRequests == {req \in ClientRequests : req.Method = "POST"}

\* a method of a generated service class is called: through an instance of
\* its own (via "service") or through the aggregate (via "aggregate"), with
\* the hook set to a function or left undefined
ClientCall(clientVersion, via, hook, req, res) ==
    /\ req.service \in DOMAIN services
    /\ \E x \in {ServeHTTPExchange(services, errorFilter, serveClient, req, res)} :
       \E events \in {jsCall(x.resp, clientVersion, ServiceHook(via, hook))} :
          last' = [op |-> "clientCall", req |-> req, res |-> res, x |-> x,
                   clientVersion |-> clientVersion, via |-> via, hook |-> hook,
                   events |-> Forwarded(via, hook, events)]
    /\ UNCHANGED <<services, errorFilter, methodLogger, serveClient, counter, calls, registrations>>

NextMismatch ==
    \/ \E r \in ClientObjects : Register(r)
    \/ \E req \in MismatchRequests : \E res \in ResultsFor(services, req) :
          \E cv \in ClientVersions(services), via \in {"service", "aggregate"},
             hook \in {"function", "undefined"} : ClientCall(cv, via, hook, req, res)

SpecMismatch == InitMismatch /\ [][NextMismatch]_vars

(***************************************************************************)
(* The classes the JavaScript template generates: one class per service    *)
(* and the aggregate class                                                 *)
(***************************************************************************)
sVersionCap == <<86, 101, 114, 115, 105, 111, 110>>
sa == <<97>>
sK == <<75>>
sKelvin == <<8490>>
\* the properties the constructors of the generated classes assign
jsName == <<110, 97, 109, 101>>
jsVersion == <<118, 101, 114, 115, 105, 111, 110>>
jsClientVersion == <<99, 108, 105, 101, 110, 116, 86, 101, 114, 115, 105, 111, 110>>
jsUrl == <<117, 114, 108>>
jsHeaders == <<104, 101, 97, 100, 101, 114, 115>>
jsOnVersionMismatch ==
    <<111, 110, 86, 101, 114, 115, 105, 111, 110, 77, 105, 115, 109, 97, 116, 99, 104>>

\* func (v *Version) Version(ctx) (string, error)
mVersion == Meth(sVersionCap, TRUE, <<rcv, ctx>>, <<"string", typeOfError>>)
\* func (t *B) K(ctx) error, and a method named with U+212A KELVIN SIGN, an
\* upper-case letter: func (t *B) K(ctx, int) (int, error)
mK == Meth(sK, TRUE, <<rcv, ctx>>, <<typeOfError>>)
mKelvin == Meth(sKelvin, TRUE, <<rcv, ctx, "int">>, <<"int", typeOfError>>)
tVersion == GoType(sVersionCap, TRUE, <<mM, mVersion>>)
tKelvin == GoType(sB, TRUE, <<mK, mKelvin>>)

TemplateObjects == {[typ |-> t, ref |-> 0] : t \in {tA, tVersion, tKelvin}}
TemplateServiceNames == {sA, sa, sEmpty}

\* unicode.ToLower, on the code points the names are written with
ToLower(c) ==
    IF c >= 65 /\ c <= 90 THEN c + 32
    ELSE IF c = 8490 THEN 107
    ELSE c

\* camelCase(s): rs[0] = unicode.ToLower(rs[0]); on the empty string rs[0]
\* panics, which text/template reports as an error of the execution
camelCasePanics(s) == s = <<>>
camelCase(s) == [i \in 1..Len(s) |-> IF i = 1 THEN ToLower(s[1]) ELSE s[i]]

isVoid(typ) == typ = NilType

\* {{camelCase .Name}}(input) { return call(..., this.name, "{{.Name}}", ...) }
jsMethod(m) ==
    [callable |-> camelCase(m.Name), wire |-> m.Name,
     takesInput |-> ~isVoid(m.Input), typed |-> ~isVoid(m.Output)]

\* class {{.Name}}: the properties its constructor assigns and the methods of
\* its body, in the order written
jsServiceClass(smd) ==
    [class |-> smd.Name,
     own |-> {jsName, jsVersion, jsClientVersion, jsUrl, jsHeaders},
     methods |-> [i \in 1..Len(smd.Methods) |-> jsMethod(smd.Methods[i])]]

\* instance.prop for an instance of the class: a property assigned by the
\* constructor comes before the methods of the class body, and of two
\* methods with one name the later one stands
jsGet(cls, prop) ==
    LET idx == {i \in 1..Len(cls.methods) : cls.methods[i].callable = prop}
    IN  IF prop \in cls.own THEN [kind |-> "field", m |-> <<>>]
        ELSE IF idx = {} THEN [kind |-> "undefined", m |-> <<>>]
        ELSE [kind |-> "method",
              m |-> cls.methods[CHOOSE i \in idx : \A k \in idx : k <= i]]

\* class {{.Metadata.Name}}: the assignments of its constructor in the order
\* written; the execution of the template stops at the first service whose
\* name camelCase panics on, and the text ends there
jsAggregate(md, version) ==
    LET failing == {i \in 1..Len(md.Services) : camelCasePanics(md.Services[i].Name)}
        n == IF failing = {} THEN Len(md.Services)
             ELSE (CHOOSE i \in failing : \A k \in failing : i <= k) - 1
    IN  [class |-> md.Name,
         complete |-> failing = {},
         assigns |-> <<[field |-> jsVersion, kind |-> "version", value |-> version]>>
                     \o [i \in 1..n |-> [field |-> camelCase(md.Services[i].Name),
                                         kind |-> "instance",
                                         value |-> md.Services[i].Name]]]

\* obj.field after the constructor ran: the last assignment to the field
jsField(agg, field) ==
    LET idx == {i \in 1..Len(agg.assigns) : agg.assigns[i].field = field}
    IN  IF idx = {} THEN [field |-> field, kind |-> "undefined", value |-> <<>>]
        ELSE agg.assigns[CHOOSE i \in idx : \A k \in idx : k <= i]

InitTemplate ==
    /\ services = <<>>
    /\ errorFilter = "none"
    /\ methodLogger = FALSE
    /\ serveClient = TRUE
    /\ last = [op |-> "NewServer"]
    /\ counter = <<>>
    /\ calls = <<>>
    /\ registrations = <<>>

\* JavaScriptClient(): the classes in the source generated for the registry
GenerateClasses ==
    /\ \E md \in {serverMetadata(services)} :
          last' = [op |-> "generate", md |-> md,
                   classes |-> [i \in 1..Len(md.Services) |-> jsServiceClass(md.Services[i])],
                   aggregate |-> jsAggregate(md, VersionOf(services))]
    /\ UNCHANGED <<services, errorFilter, methodLogger, serveClient, counter, calls, registrations>>

NextTemplate ==
    \/ \E name \in TemplateServiceNames, r \in TemplateObjects : RegisterName(name, r)
    \/ \E r \in TemplateObjects : Register(r)
    \/ GenerateClasses

SpecTemplate == InitTemplate /\ [][NextTemplate]_vars

(***************************************************************************)
(* Properties                                                              *)
(***************************************************************************)
IsRegistration == last.op = "RegisterName"
IsExchange == last.op = "ServeHTTP"

\* the number of methods of r's type that satisfy the eligibility rule
EligibleCount(r) == Len(SuitableMethods(TypeOf(r)))

\* the request carried both identifiers and a readable body: it is dispatched
IsDispatch ==
    /\ IsExchange
    /\ last.req.Method = "POST"
    /\ last.req.service # sEmpty
    /\ last.req.method # sEmpty
    /\ ~last.req.bodyErr

ServiceKnown == last.req.service \in DOMAIN services
MethodKnown == ServiceKnown /\ last.req.method \in DOMAIN services[last.req.service].methods
\* the Go method the request resolves to, as its receiver type declares it
TargetDecl ==
    LET decls == services[last.req.service].typ.Decls
    IN  CHOOSE d \in {decls[i] : i \in 1..Len(decls)} : d.Name = last.req.method
DeclaresInput == NumIn(TargetDecl) = 3
DeclaredInput == TargetDecl.In[3]
DeclaresOutput == NumOut(TargetDecl) = 2
\* the body is empty or json.Unmarshal rejects it for the declared input type
BodyUndecodable ==
    \/ last.req.body = ""
    \/ ~Unmarshal(last.req.body, ElemType(DeclaredInput)).err.nil

\* the business method ran and returned a non-nil error
BusinessFailed == IsDispatch /\ Len(last.x.calls) = 1 /\ ~last.res.errv.nil

\* C1: a registration with a usable name fails with ErrInvalidService when
\* the type has no eligible method and succeeds when it has one, so every
\* registered service has a non-empty method set
C1_InvalidIffNoEligibleMethod ==
    /\ IsRegistration /\ last.name # defaultRPCClassName /\ ~last.registered
          /\ ~last.panic =>
          /\ EligibleCount(last.r) = 0 => ErrorsIs(last.err, ErrInvalidService)
          /\ EligibleCount(last.r) > 0 => last.err.nil
    /\ \A n \in DOMAIN services : DOMAIN services[n].methods # {}

\* C2: two descriptors get different method versions exactly when their
\* names, input type identities or output type identities differ
C2_VersionDiffersIffDescriptorDiffers ==
    last.op = "calculateMethodVersion" =>
        ((last.va # last.vb) <=>
            (\/ last.a.Name # last.b.Name
             \/ last.a.Input # last.b.Input
             \/ last.a.Output # last.b.Output))

CallerClassError ==
    /\ IsDispatch
    /\ MethodKnown
    /\ \/ BusinessFailed
       \/ DeclaresInput /\ BodyUndecodable

C5_UnknownIsNotFound ==
    IsDispatch /\ ~MethodKnown =>
        /\ last.x.resp.code = StatusNotFound
        /\ last.x.calls = <<>>
        /\ ErrorsIs(last.x.err, IF ServiceKnown THEN errMethodNotFound ELSE errServiceNotFound)

\* a registered service was asked for a method it does not have
C5_Witness ==
    /\ IsDispatch
    /\ ServiceKnown /\ ~MethodKnown
    /\ last.x.resp.code = StatusNotFound

\* C6: a POST without a service or method identifier is answered 400 before
\* dispatch: no lookup is made and nothing is invoked
C6_MissingIdentifierBeforeDispatch ==
    IsExchange /\ last.req.Method = "POST"
               /\ (last.req.service = sEmpty \/ last.req.method = sEmpty) =>
        /\ last.x.resp.code = StatusBadRequest
        /\ last.x.resp.body.kind = "errorResponse"
        /\ last.x.resp.body.Message \in {errNoService.msg, errNoMethod.msg}
        /\ ~last.x.dispatched
        /\ last.x.calls = <<>>

\* the method identifier is missing and the service named is not registered
C6_Witness ==
    /\ IsExchange /\ last.req.Method = "POST"
    /\ last.req.method = sEmpty
    /\ last.req.service # sEmpty /\ ~ServiceKnown
    /\ last.x.resp.code = StatusBadRequest

\* C7: for a method with an input type an empty body fails with the NoInput
\* kind and undecodable bytes fail with DecodingInput wrapping the codec's
\* error; both are 400 and the method is not invoked
C7_InputErrors ==
    IsDispatch /\ MethodKnown /\ DeclaresInput =>
        LET u == Unmarshal(last.req.body, ElemType(DeclaredInput))
        IN  /\ last.req.body = "" =>
                /\ ErrorsIs(last.x.err, errNoInput)
                /\ last.x.resp.code = StatusBadRequest
                /\ last.x.calls = <<>>
            /\ last.req.body # "" /\ ~u.err.nil =>
                /\ ErrorsIs(last.x.err, errDecodingInput)
                /\ last.x.err.msg = errDecodingInput.msg \o <<Lit(": ")>> \o u.err.msg
                /\ last.x.resp.code = StatusBadRequest
                /\ last.x.calls = <<>>

\* an int parameter was sent a JSON string
C7_Witness ==
    /\ IsDispatch /\ MethodKnown
    /\ DeclaresInput /\ DeclaredInput = "int"
    /\ last.req.body = "\"boom\""
    /\ ErrorsIs(last.x.err, errDecodingInput)
    /\ ~ErrorsIs(last.x.err, errNoInput)

\* C8: a method without an input type is invoked with the context only,
\* whatever the body; without an output type and error the response is the
\* success envelope holding null
C8_NoInputIgnoresBody ==
    IsDispatch /\ MethodKnown /\ ~DeclaresInput =>
        /\ last.x.calls = <<[method |-> last.req.method, args |-> <<>>]>>
        /\ ~DeclaresOutput /\ last.res.errv.nil =>
              /\ last.x.resp.code = StatusOK
              /\ last.x.resp.body = [kind |-> "outputResponse", Output |-> nullJSON]

\* a no-input, no-output method was sent malformed bytes and succeeded
C8_Witness ==
    /\ IsDispatch /\ MethodKnown
    /\ ~DeclaresInput /\ ~DeclaresOutput
    /\ last.req.body = "malformed input"
    /\ last.x.resp.code = StatusOK

\* the business method returned a value json.Marshal rejects
EncodingFailed ==
    /\ IsDispatch /\ MethodKnown
    /\ Len(last.x.calls) = 1
    /\ last.res.errv.nil
    /\ DeclaresOutput
    /\ ~Marshal(last.res.resp).err.nil

\* C9: not-found errors are answered 404 and output-encoding failures 500,
\* with their own message, and are never handed to the error filter
C9_FilterCannotMask ==
    /\ IsDispatch /\ ~MethodKnown =>
          /\ last.x.resp.code = StatusNotFound
          /\ last.x.resp.body.Status = StatusNotFound
          /\ last.x.resp.body.Message =
                IF ServiceKnown
                THEN errMethodNotFound.msg \o <<Lit(" "), Str(last.req.method)>>
                ELSE errServiceNotFound.msg \o <<Lit(" "), Str(last.req.service)>>
          /\ last.x.filtered = <<>>
    /\ EncodingFailed =>
          /\ last.x.resp.code = StatusInternalServerError
          /\ last.x.resp.body.Status = StatusInternalServerError
          /\ last.x.resp.body.Message =
                errEncodingOutput.msg \o <<Lit(": ")>> \o Marshal(last.res.resp).err.msg
          /\ last.x.filtered = <<>>

\* an encoding failure on a server whose filter replaces every error
C9_Witness ==
    /\ EncodingFailed
    /\ errorFilter = "replaces"
    /\ last.x.resp.code = StatusInternalServerError

C11_BoundNameStaysBound ==
    [][/\ \A n \in DOMAIN services :
              n \in DOMAIN services' /\ services'[n] = services[n]
       /\ (last'.op = "RegisterName" /\ last'.name \in DOMAIN services) =>
              ErrorsIs(last'.err, ErrServiceRegistered)]_vars

\* a second registration under a bound name, with an object of another type
C11_Witness ==
    /\ IsRegistration /\ last.registered
    /\ ~TypeOf(last.r).Nil /\ validServiceType(TypeOf(last.r))
    /\ services[last.name].typ # TypeOf(last.r)
    /\ ErrorsIs(last.err, ErrServiceRegistered)

\* C12: a registration under the name "RPC", given or derived from the type,
\* fails with ErrReservedServiceName whatever the object is, and not with the
\* duplicate or invalid-service error; "RPC" is never bound
C12_ReservedNameRejected ==
    /\ defaultRPCClassName \notin DOMAIN services
    /\ (IsRegistration /\ last.name = defaultRPCClassName) =>
          /\ ~last.panic
          /\ ErrorsIs(last.err, ErrReservedServiceName)
          /\ ~ErrorsIs(last.err, ErrInvalidService)
          /\ ~ErrorsIs(last.err, ErrServiceRegistered)

\* the reserved name derived from a type that has no method at all
C12_Witness ==
    /\ IsRegistration
    /\ ~TypeOf(last.r).Nil
    /\ findServiceName(TypeOf(last.r)) = defaultRPCClassName
    /\ last.name = defaultRPCClassName
    /\ ~validServiceType(TypeOf(last.r))
    /\ ErrorsIs(last.err, ErrReservedServiceName)

\* C13: Register and RegisterName always return, with nil or with one of
\* ErrReservedServiceName, ErrServiceRegistered, ErrInvalidService
C13_RegistrationReturnsTaxonomy ==
    last.op \in {"Register", "RegisterName"} =>
        /\ ~last.panic
        /\ \/ last.err.nil
           \/ ErrorsIs(last.err, ErrReservedServiceName)
           \/ ErrorsIs(last.err, ErrServiceRegistered)
           \/ ErrorsIs(last.err, ErrInvalidService)

\* the methods reflection reports for the type a service was built from
ReportedMethods(n) ==
    LET ms == ExportedMethods(services[n].typ)
    IN  {ms[i] : i \in 1..Len(ms)}

\* the eligibility rule with "at most two return values"
EligibleAtMostTwoResults(d) ==
    /\ NumIn(d) >= 2 /\ d.In[2] = typeOfContext
    /\ NumIn(d) <= 3
    /\ NumOut(d) <= 2
    /\ NumOut(d) = 1 => d.Out[1] = typeOfError
    /\ NumOut(d) = 2 => d.Out[2] = typeOfError

\* the eligibility rule with "one or two return values"
EligibleOneOrTwoResults(d) == EligibleAtMostTwoResults(d) /\ NumOut(d) >= 1

\* a type with an eligible method registers without error although other
\* methods of it are skipped, and a request for a skipped method is answered
\* with method-not-found, no business method called
SkippedMethodsAreNotFound ==
    /\ (IsRegistration /\ ~last.panic /\ ~last.registered
            /\ last.name # defaultRPCClassName /\ EligibleCount(last.r) > 0) =>
          last.err.nil
    /\ (IsDispatch /\ ServiceKnown /\ ~MethodKnown) =>
          /\ last.x.resp.code = StatusNotFound
          /\ ErrorsIs(last.x.err, errMethodNotFound)
          /\ last.x.calls = <<>>

\* C14 as stated: the method set of every registered service is the set of
\* the type's methods with a context first, at most one further parameter
\* and at most two results of which the last is the error; the others are
\* skipped without error and are not found on dispatch
C14_MethodSetAtMostTwoResults ==
    /\ \A n \in DOMAIN services :
          DOMAIN services[n].methods =
              {d.Name : d \in {e \in ReportedMethods(n) : EligibleAtMostTwoResults(e)}}
    /\ SkippedMethodsAreNotFound

\* C14 amended: the same with one or two results
C14_MethodSetOneOrTwoResults ==
    /\ \A n \in DOMAIN services :
          DOMAIN services[n].methods =
              {d.Name : d \in {e \in ReportedMethods(n) : EligibleOneOrTwoResults(e)}}
    /\ SkippedMethodsAreNotFound

\* a request for W(ctx, a, b), which the registered type declares and the
\* discovery skipped next to eligible methods
C14_Witness ==
    /\ IsDispatch /\ ServiceKnown /\ ~MethodKnown
    /\ \E d \in ReportedMethods(last.req.service) :
          d.Name = last.req.method /\ ~EligibleOneOrTwoResults(d)
    /\ DOMAIN services[last.req.service].methods # {}
    /\ last.x.resp.code = StatusNotFound

\* C15: replacing a method by one that differs in name, input type or output
\* type changes the method version, the service version and the server
\* version; renaming a service changes its version and the server version
C15_ChangeChangesVersions ==
    last.op = "versions" =>
        /\ last.c.change = "method" => last.method.a # last.method.b
        /\ last.service.a # last.service.b
        /\ last.server.a # last.server.b

\* the names of a sequence of metadata records strictly ascend
SortedByName(xs) ==
    \A i \in 1..Len(xs) : \A j \in 1..Len(xs) : i < j => StrLess(xs[i].Name, xs[j].Name)

\* C16: the snapshot lists every registered service once, sorted by name,
\* with its methods sorted by name; whatever the iteration orders of the maps
\* and the order of the registrations, it is the snapshot determined by the
\* registry alone and so are its service versions and the server version; two
\* snapshots with no call in between are equal
C16_SnapshotIsCanonical ==
    last.op = "metadata" =>
        /\ SortedByName(last.md.Services)
        /\ \A i \in 1..Len(last.md.Services) : SortedByName(last.md.Services[i].Methods)
        /\ {last.md.Services[i].Name : i \in 1..Len(last.md.Services)} = DOMAIN services
        /\ last.md = serverMetadata(services)
        /\ \A i \in 1..Len(last.md.Services) :
              LET smd == last.md.Services[i]
              IN  /\ smd.Version = calculateServiceVersion(smd)
                  /\ smd = serviceMetadata(newService(smd.Name, services[smd.Name].typ,
                                                    services[smd.Name].value))
        /\ calculateServerVersion(last.md) = calculateServerVersion(serverMetadata(services))
        /\ \A p \in {last.prev[i] : i \in DOMAIN last.prev} : last.md = p

\* a second snapshot in a row of two services, both with two methods or more,
\* taken while the maps iterate in descending name order
C16_Witness ==
    /\ last.op = "metadata" /\ last.prev # <<>>
    /\ Len(last.so) = 2 /\ StrLess(last.so[2], last.so[1])
    /\ StrLess(last.mo[3], last.mo[2]) /\ StrLess(last.mo[2], last.mo[1])
    /\ \A n \in DOMAIN services : Cardinality(DOMAIN services[n].methods) >= 2

\* C17: the text a generator returns is the template applied to the snapshot
\* the registry determines, whatever the iteration orders of the maps, and a
\* generation that follows one of the same generator returns the same text
C17_ClientTextIsStable ==
    last.op = "clientSourceCode" =>
        /\ last.src =
              GenerateClientWith(last.client, serverMetadata(services)).SourceCode
        /\ \A p \in {last.prev[i] : i \in DOMAIN last.prev} : last.src = p

\* a TypeScript client generated twice in a row from two services with
\* several methods, the second time with the maps iterating in descending order
C17_Witness ==
    /\ last.op = "clientSourceCode" /\ last.client = "typeScriptClient"
    /\ last.prev # <<>>
    /\ Len(last.so) = 2 /\ StrLess(last.so[2], last.so[1])
    /\ StrLess(last.mo[3], last.mo[2]) /\ StrLess(last.mo[2], last.mo[1])
    /\ \A n \in DOMAIN services : Cardinality(DOMAIN services[n].methods) >= 2

RECURSIVE SumOfDeltas(_)
SumOfDeltas(S) ==
    IF S = {} THEN 0
    ELSE LET i == CHOOSE j \in S : TRUE
         IN  calls[i].delta + SumOfDeltas(S \ {i})

\* C18: the Add calls are applied to the Counter object that was registered:
\* there is one order of the applied calls (seq), which puts a call after the
\* calls answered before it arrived, in which every call returns the sum of
\* the deltas up to its own; the object holds the sum of all of them, and the
\* response carries the returned value
C18_AddAccumulatesInOneOrder ==
    /\ {calls[i].seq : i \in Applied} = 1..Cardinality(Applied)
    /\ \A i \in Applied :
          /\ calls[i].ret = SumOfDeltas({j \in Applied : calls[j].seq <= calls[i].seq})
          /\ \A j \in calls[i].after \cap Applied : calls[j].seq < calls[i].seq
          /\ calls[i].x.resp.code = StatusOK
          /\ calls[i].x.resp.body.Output = ToString(calls[i].ret)
    /\ \A o \in DOMAIN counter : counter[o] = SumOfDeltas(Applied)

\* Add(1) answered 1, then Add(-1) answered 0, while a third request that
\* arrived before the second was answered is still to be applied
C18_Witness ==
    /\ Len(calls) = 3
    /\ calls[1].pc = "done" /\ calls[1].delta = 1 /\ calls[1].ret = 1
    /\ calls[2].pc = "done" /\ calls[2].delta = -1 /\ calls[2].ret = 0
    /\ calls[2].after = {1} /\ calls[3].after = {1}
    /\ calls[3].pc = "started"
    /\ last.x.resp.body.Output = "0"

\* the request resolves to a method and carries what the method needs: a
\* body that decodes when the method declares an input
Invocable ==
    /\ IsDispatch /\ MethodKnown
    /\ DeclaresInput => ~BodyUndecodable

\* C19: a request makes at most one call of a business method; it makes one,
\* of the method it names, exactly when the service and the method are found
\* and the input decodes; every request is answered with one response
C19_AtMostOneInvocation ==
    IsExchange =>
        /\ Len(last.x.calls) <= 1
        /\ Invocable <=> Len(last.x.calls) = 1
        /\ Len(last.x.calls) = 1 => last.x.calls[1].method = last.req.method
        /\ last.x.resp.code \in
              {StatusOK, StatusBadRequest, StatusNotFound, StatusInternalServerError}

\* the business method failed: one call, one response, no second attempt
C19_Witness ==
    /\ IsExchange /\ Invocable
    /\ ~last.res.errv.nil
    /\ Len(last.x.calls) = 1
    /\ last.x.resp.code = StatusBadRequest

\* a step that assembles the metadata or generates a client, the client
\* served on GET included
IsReadStep ==
    \/ last'.op \in {"metadata", "clientSourceCode"}
    \/ last'.op = "ServeHTTP" /\ last'.req.Method = "GET"

\* C20: metadata() and the client generators, called in any order between
\* registrations and dispatches, leave the registry and the options as they
\* were, so every request is answered after the call as it was before it
C20_ReadsLeaveRegistryUnchanged ==
    [][IsReadStep =>
          /\ services' = services
          /\ <<errorFilter, methodLogger, serveClient>>' =
                <<errorFilter, methodLogger, serveClient>>
          /\ \A req \in {q \in ClientRequests : q.Method = "POST"} :
             \A res \in ResultsFor(services, req) :
                ServeHTTPExchange(services', errorFilter', serveClient', req, res) =
                    ServeHTTPExchange(services, errorFilter, serveClient, req, res)]_vars

\* a client generated right after a request was served, the two registered
\* services still in place
C20_Witness ==
    /\ last.op = "clientSourceCode" /\ last.afterRequest
    /\ Cardinality(DOMAIN services) = 2
    /\ \A n \in DOMAIN services :
          services[n] = newService(n, services[n].typ, services[n].value)

\* C21: a registration's write of the service map is serialized against the
\* reads made by call and metadata: in no state is a handler inside a read of
\* the registry while a registration is inside its write of the registry
C21_WriteSerializedAgainstReads == ~(Writing /\ Reading)

\* C22: every failure response, for every request (any HTTP method, any
\* identifiers, any body), carries the failure envelope, a numeric status and
\* a message, and the status in the body equals the HTTP status code
C22_FailureCarriesEnvelope ==
    (IsExchange /\ last.x.resp.code # StatusOK) =>
        /\ last.x.resp.body.kind = "errorResponse"
        /\ last.x.resp.body.Status = last.x.resp.code

\* C23: for a method that returns its input unchanged (Echo, Pointer), the
\* dispatch of any decodable input succeeds, the output is the input after a
\* decode and an encode and decodes to the same value as the input, and the
\* method was called once with the argument in the shape it declares: a
\* value for a value-typed parameter, a non-nil pointer for a pointer-typed
\* parameter
C23_EchoRoundTrip ==
    (IsDispatch /\ MethodKnown /\ last.req.method \in {sEcho, sPointer}
                /\ ~BodyUndecodable) =>
        LET t == ElemType(DeclaredInput)
            in == Unmarshal(last.req.body, t).val
            out == last.x.resp.body.Output
        IN  /\ last.x.resp.code = StatusOK
            /\ last.x.resp.body.kind = "outputResponse"
            /\ out = Marshal(in).buf
            /\ Unmarshal(out, t).err.nil
            /\ Unmarshal(out, t).val = in
            /\ Len(last.x.calls) = 1
            /\ Len(last.x.calls[1].args) = 1
            /\ last.x.calls[1].args[1].ref = IsPointerType(DeclaredInput)
            /\ Deref(last.x.calls[1].args[1]) = in

\* Pointer was called with a pointer to the decoded string and the string
\* came back as the output
C23_Witness ==
    /\ IsDispatch /\ MethodKnown /\ ~BodyUndecodable
    /\ last.req.method = sPointer
    /\ last.req.body = "\"boom\""
    /\ last.x.resp.code = StatusOK
    /\ last.x.resp.body.Output = "\"boom\""
    /\ last.x.calls[1].args[1].ref

\* C24: when a generated client whose embedded version differs from the
\* version of the server it calls makes a call with a mismatch callback set
\* (on the service instance, or on the aggregate that contains it), the
\* callback is invoked before the call resolves or rejects and the call then
\* settles with its normal outcome; a client with the version of the server
\* never has its callback invoked
C24_MismatchCallbackInvoked ==
    (last.op = "clientCall" /\ last.hook = "function") =>
        IF last.clientVersion # VersionOf(services)
        THEN /\ Len(last.events) = 2
             /\ last.events[1].ev = "onVersionMismatch"
             /\ last.events[2].ev = IF last.x.resp.code = StatusOK THEN "resolve" ELSE "reject"
        ELSE /\ Len(last.events) = 1
             /\ last.events[1].ev \in {"resolve", "reject"}

\* C25: for every service in the metadata the generated client exposes one
\* callable per method, named the method name with its first letter in lower
\* case, which calls that method, takes an argument iff the method declares
\* an input, resolves to a value iff it declares an output; the callable
\* names of one service are pairwise distinct
C25_OneCallablePerMethod ==
    (last.op = "generate") =>
        \A i \in 1..Len(last.md.Services) :
            LET ms == last.md.Services[i].Methods
                cls == last.classes[i]
            IN  /\ cls.class = last.md.Services[i].Name
                /\ Len(cls.methods) = Len(ms)
                /\ \A j \in 1..Len(ms) :
                      LET p == jsGet(cls, camelCase(ms[j].Name))
                      IN  /\ p.kind = "method"
                          /\ p.m.wire = ms[j].Name
                          /\ p.m.takesInput = (ms[j].Input # NilType)
                          /\ p.m.typed = (ms[j].Output # NilType)
                /\ \A j, k \in 1..Len(ms) :
                      j # k => cls.methods[j].callable # cls.methods[k].callable

\* C26: for every set of services registration accepts, the aggregate class
\* has one field per service, named by the first-letter-lower-case transform
\* and holding an instance of that service's class, its version field holds
\* the server version, and no service's field is the field of another
\* service, the version field or the mismatch hook
C26_AggregateFieldsDistinct ==
    (last.op = "generate") =>
        LET ss == last.md.Services
            agg == last.aggregate
        IN  /\ agg.complete
            /\ jsField(agg, jsVersion).kind = "version"
            /\ jsField(agg, jsVersion).value = VersionOf(services)
            /\ \A i \in 1..Len(ss) :
                  /\ jsField(agg, camelCase(ss[i].Name)).kind = "instance"
                  /\ jsField(agg, camelCase(ss[i].Name)).value = ss[i].Name
                  /\ camelCase(ss[i].Name) \notin {jsVersion, jsOnVersionMismatch}
            /\ \A i, k \in 1..Len(ss) :
                  i # k => camelCase(ss[i].Name) # camelCase(ss[k].Name)

\* C27: with the JavaScript-client option set every GET request is answered
\* with the generated client source, the one JavaScriptClient() returns for
\* the current registry, and dispatches no method whatever its query
\* parameters; without the option every GET is answered 404; with or without
\* it every request that is neither GET nor POST is answered 404 and invokes
\* nothing
C27_GetServesClientOnly ==
    (IsExchange /\ last.req.Method # "POST") =>
        /\ ~last.x.dispatched
        /\ last.x.calls = <<>>
        /\ IF last.req.Method = "GET" /\ serveClient
           THEN /\ last.x.resp.code = StatusOK
                /\ last.x.resp.contentType = "text/javascript"
                /\ last.x.resp.body.kind = "source"
                /\ last.x.resp.body.SourceCode =
                       generateClientFromTemplate(javascriptTemplateText,
                                                  serverMetadata(services))
           ELSE last.x.resp.code = StatusNotFound

\* a GET naming a registered service and one of its methods was answered
\* with the client source on a server with the option
C27_Witness ==
    /\ IsExchange /\ last.req.Method = "GET" /\ serveClient
    /\ MethodKnown
    /\ last.x.resp.code = StatusOK
    /\ last.x.resp.body.kind = "source"
    /\ last.x.calls = <<>>

\* C28: a Register or RegisterName call that returns an error (reserved name,
\* duplicate name, invalid service) leaves the registry as it was, the same
\* names bound to the same services with the same methods and versions, and
\* calls the method logger zero times
C28_FailedRegistrationChangesNothing ==
    [][(last'.op = "RegisterName" /\ ~last'.err.nil) =>
           /\ services' = services
           /\ last'.logged = <<>>]_vars

\* a registration under a bound name, of an object with eligible methods, on
\* a server with a method logger, was refused
C28_Witness ==
    /\ IsRegistration /\ ~last.err.nil /\ ~last.panic
    /\ methodLogger
    /\ last.registered
    /\ ~TypeOf(last.r).Nil /\ EligibleCount(last.r) > 0
    /\ ErrorsIs(last.err, ErrServiceRegistered)
    /\ last.logged = <<>>

\* C29: in every state every registry entry services[n] is a fully built
\* service: its name is n, its method set is the complete set of eligible
\* methods of its type, and its version is calculateServiceVersion of its
\* metadata; a service enters the registry only after discovery and version
\* computation, so what a call or a metadata read finds is fully built too
C29_RegistryHoldsBuiltServices ==
    /\ \A n \in DOMAIN services :
          /\ services[n].name = n
          /\ DOMAIN services[n].methods =
                 {SuitableMethods(services[n].typ)[i].Name :
                      i \in 1..Len(SuitableMethods(services[n].typ))}
          /\ services[n].version = calculateServiceVersion(serviceMetadata(services[n]))
          /\ services[n] = newService(n, services[n].typ, services[n].value)
    /\ \A j \in DOMAIN registrations :
          registrations[j].pc \in {"discover", "version"} =>
              registrations[j].svc \notin Stored
    /\ (last.op = "read" /\ ~last.fatal) =>
          \A s \in last.seen :
              /\ s = newService(s.name, s.typ, s.value)
              /\ s.version = calculateServiceVersion(serviceMetadata(s))

\* a read found a service in the registry while a registration was still
\* building another one
C29_Witness ==
    /\ last.op = "read" /\ ~last.fatal /\ last.seen # {}
    /\ \E j \in DOMAIN registrations :
          /\ registrations[j].pc = "version"
          /\ registrations[j].svc.methods # <<>>
          /\ registrations[j].svc.version = <<>>

\* C30: every service that Register or RegisterName accepted can be reached:
\* a POST request that carries the registered name of a service and the name
\* of one of its methods gets to that method's invoker and is answered with
\* neither the missing-identifier (400) nor the not-found (404) outcome
C30_RegisteredServiceReachable ==
    (IsExchange /\ last.req.Method = "POST" /\ ~last.req.bodyErr /\ MethodKnown) =>
        /\ last.x.dispatched
        /\ last.x.resp.code # StatusNotFound
        /\ ~(/\ last.x.resp.code = StatusBadRequest
             /\ last.x.resp.body.Message \in {errNoService.msg, errNoMethod.msg})

====
